---- MODULE Spec2Model ----
(***************************************************************************)
(* Model of the attendance-system backend: the attendance recorder         *)
(* (UserHandler.CheckIn / CheckOut over attendanceRepo) and the schedule   *)
(* assignor (AdminHandler.Create/Update/DeleteSchedule over scheduleRepo), *)
(* on top of the tables declared in migrations/000001_init_schema.up.sql.  *)
(*                                                                         *)
(* Every request is handled by one goroutine; Procs are the request slots. *)
(* A handler is split at its datastore statements: one action per          *)
(* statement, so that the statements of concurrent requests interleave.    *)
(* A single SQL statement is atomic (row-level atomicity, constraints).    *)
(***************************************************************************)
EXTENDS Integers, FiniteSets, Sequences, TLC

\* ------------------------------------------------------------------ bounds
NumProcs == 2
\* requests start while clock < MaxClock (sequential runs),
\* clock < MaxConcurrentClock (concurrent runs)
MaxClock == 3
MaxConcurrentClock == 2
TicksPerDay == 2
MaxSchedules == 2

Procs == 1..NumProcs

\* ------------------------------------------------------- program constants
StatusOK == 200
StatusCreated == 201
StatusBadRequest == 400
StatusForbidden == 403
StatusNotFound == 404
StatusConflict == 409
StatusInternalServerError == 500

\* ------------------------------------------------------------- value sets
\* SQL NULL / Go nil for a timestamp column (*time.Time) and for notes (*string)
NULL == -1
NoNotes == "<nil>"
NoteVals == {"n", "m"}
NotesInputs == {NoNotes} \cup NoteVals

\* ids carried by validated tokens of the users of the directory
UserIds == {1, 2}
ShiftIds == {1, 2}
ScheduleIdInputs == 1..MaxSchedules

\* calendar day of a timestamp (time.Date(now.Year(), now.Month(), now.Day(), ...))
Day(t) == (t \div TicksPerDay) + 1

Max(a, b) == IF a >= b THEN a ELSE b

\* ---------------------------------------------------------------- dates
\* time.Parse(dateLayout, s) with dateLayout = "2006-01-02": the day number
\* of a well-formed string, ParseError for anything else.
ParseError == 0
ParseDate(s) ==
    CASE s = "0001-01-01" -> 1
      [] s = "0001-01-02" -> 2
      [] OTHER -> ParseError

VARIABLES
    users,            \* ids of the rows of table users
    shifts,           \* ids of the rows of table shifts
    schedules,        \* rows of table user_schedules
    nextScheduleId,   \* SERIAL sequence of user_schedules.id
    attendances,      \* rows of table attendances
    nextAttendanceId, \* SERIAL sequence of attendances.id
    checkOutWrites,   \* per attendance id: number of UPDATEs that wrote check_out_at
    clock,            \* wall clock (time.Now()), in ticks
    pc,               \* per request slot: the statement the handler is at
    req,              \* per request slot: the handler's locals
    response,         \* the response sent last (c.Status(...).JSON(...))
    roles,            \* rows of table roles
    nextRoleId,       \* SERIAL sequence of roles.id
    userRole,         \* per user id: column role_id of its row in users
    profiles,         \* per user id: columns username and email of its row
    nextUserId,       \* SERIAL sequence of users.id
    issued,           \* per user id: the token Login issued last, and when
    ctx,              \* fiber.Ctx of the request dispatched last
    trace,            \* handlers of its chain that were called, in order
    wall,             \* time.Now() of the token runs, in ticks of a second
    environ,          \* os.Getenv("JWT_SECRET") of the process
    jwtSecret,        \* package variable utils.jwtSecret
    boot,             \* how far the start of the process has come
    pagination,       \* the query parsed last, and its PaginationQuery
    listing,          \* the list response sent last: its rows and its meta
    scan,             \* a client reading a list page by page: the query
                      \* under way, its last page and the pages so far
    meta              \* a call of BuildPaginationMeta: arguments and result

vars == <<users, shifts, schedules, nextScheduleId, attendances,
          nextAttendanceId, checkOutWrites, clock, pc, req, response,
          roles, nextRoleId, userRole, profiles, nextUserId, issued, ctx,
          trace, wall, environ, jwtSecret, boot, pagination, listing,
          scan, meta>>

\* the part of users and roles the handlers of schedules and attendance
\* do not touch, and the state of the request pipeline
roleTable == <<roles, nextRoleId>>
accounts == <<profiles, nextUserId>>
directory == <<roles, nextRoleId, userRole, profiles, nextUserId>>
startup == <<environ, jwtSecret, boot>>
pipeline == <<issued, ctx, trace, wall, environ, jwtSecret, boot>>
reports == <<pagination, listing, scan, meta>>

store == <<users, shifts, schedules, nextScheduleId, attendances,
           nextAttendanceId, checkOutWrites>>

\* ------------------------------------------------------- rows and locals
NoAttendance == [id |-> 0, user_id |-> 0, check_in_at |-> NULL,
                 check_out_at |-> NULL, notes |-> NoNotes]
NoSchedule == [id |-> 0, user_id |-> 0, shift_id |-> 0, date |-> 0]
NoInput == [user_id |-> 0, shift_id |-> 0, date |-> ""]

NoReq == [userID |-> 0, now |-> 0, notes |-> NoNotes, lastAttID |-> 0,
          scheduleID |-> 0, input |-> NoInput, schedFound |-> FALSE,
          schedErr |-> FALSE]

NoResp == [op |-> "none", status |-> 0, msg |-> "", id |-> 0,
           userID |-> 0, schedFound |-> FALSE, schedErr |-> FALSE]

\* (mutation) a handler that answers 500 whatever it did
RespondServerError(p, r) ==
    response' = [r EXCEPT !.status = StatusInternalServerError]

Respond(p, r) == response' = r

Finish(p) == /\ pc' = [pc EXCEPT ![p] = "idle"]
             /\ req' = [req EXCEPT ![p] = NoReq]

\* A datastore round trip of request p takes time: afterwards the clock is
\* strictly later than the time.Now() the handler read before it.
Elapse(p) == clock' = Max(clock, req[p].now + 1)

\* ------------------------------------------------------- attendanceRepo
\* (mutation) the last record of any user
GetLastAttendanceAnyUser(userID) ==
    {a \in attendances :
        \A b \in attendances : b.check_in_at <= a.check_in_at}

\* SELECT ... WHERE user_id = $1 ORDER BY check_in_at DESC LIMIT 1:
\* the rows the query may return (several when check_in_at ties).
GetLastAttendance(userID) ==
    {a \in attendances :
        /\ a.user_id = userID
        /\ \A b \in attendances :
              b.user_id = userID => b.check_in_at <= a.check_in_at}

\* INSERT INTO attendances (user_id, check_in_at, notes) ... RETURNING id
CreateCheckIn(userID, checkInTime, notes) ==
    attendances \cup {[id |-> nextAttendanceId, user_id |-> userID,
                       check_in_at |-> checkInTime, check_out_at |-> NULL,
                       notes |-> notes]}

\* (mutation) SET notes = $2, without the COALESCE
CoalesceNew(new, old) == new

\* COALESCE($2, notes)
Coalesce(new, old) == IF new # NoNotes THEN new ELSE old

\* (mutation) the UPDATE without its "AND check_out_at IS NULL"
UpdateCheckOutRowsAnyState(attendanceID) ==
    {a \in attendances : a.id = attendanceID}

\* rows matched by UPDATE attendances ... WHERE id = $3 AND check_out_at IS NULL
UpdateCheckOutRows(attendanceID) ==
    {a \in attendances : a.id = attendanceID /\ a.check_out_at = NULL}

\* (mutation) an UPDATE that sets the notes but leaves check_out_at alone
UpdateCheckOutNotesOnly(attendanceID, checkOutTime, notes) ==
    {IF a \in UpdateCheckOutRows(attendanceID)
        THEN [a EXCEPT !.notes = Coalesce(notes, a.notes)]
        ELSE a : a \in attendances}

\* UPDATE attendances SET check_out_at = $1, notes = COALESCE($2, notes) ...
UpdateCheckOut(attendanceID, checkOutTime, notes) ==
    {IF a \in UpdateCheckOutRows(attendanceID)
        THEN [a EXCEPT !.check_out_at = checkOutTime,
                       !.notes = Coalesce(notes, a.notes)]
        ELSE a : a \in attendances}

\* ---------------------------------------------------------- scheduleRepo
\* SELECT ... FROM user_schedules WHERE user_id = $1 AND date = $2
ScheduleRows(userID, date) ==
    {s \in schedules : s.user_id = userID /\ s.date = date}

\* scheduleRepo.GetScheduleByUserAndDate: pgx.ErrNoRows is turned into
\* (nil, nil), so the error returned is nil whether or not a row exists.
GetScheduleByUserAndDate(userID, date) ==
    IF ScheduleRows(userID, date) = {}
        THEN [row |-> NoSchedule, err |-> "nil"]
        ELSE [row |-> CHOOSE s \in ScheduleRows(userID, date) : TRUE,
              err |-> "nil"]

\* ------------------------------------------------- UserHandler.CheckIn
CheckInStart(p, userID, notes) ==
    /\ pc[p] = "idle"
    /\ pc' = [pc EXCEPT ![p] = "ci_last"]
    /\ req' = [req EXCEPT ![p] = [NoReq EXCEPT !.userID = userID,
                                               !.now = clock,
                                               !.notes = notes]]
    /\ UNCHANGED <<store, clock, response>>

\* (mutation) the test with its nil comparison inverted
AlreadyCheckedInInverted(lastAtt) ==
    lastAtt.id # 0 /\ lastAtt.check_out_at # NULL

\* lastAtt != nil && lastAtt.CheckOutAt == nil
AlreadyCheckedIn(lastAtt) == lastAtt.id # 0 /\ lastAtt.check_out_at = NULL

CheckInGetLast(p) ==
    /\ pc[p] = "ci_last"
    /\ \E lastAtt \in (IF GetLastAttendance(req[p].userID) = {}
                          THEN {NoAttendance}
                          ELSE GetLastAttendance(req[p].userID)) :
          IF AlreadyCheckedIn(lastAtt)
             THEN /\ Respond(p, [NoResp EXCEPT !.op = "checkin",
                                    !.status = StatusConflict,
                                    !.msg = "User already checked in",
                                    !.id = lastAtt.id,
                                    !.userID = req[p].userID])
                  /\ Finish(p)
             ELSE /\ pc' = [pc EXCEPT ![p] = "ci_sched"]
                  /\ UNCHANGED <<req, response>>
    /\ Elapse(p)
    /\ UNCHANGED store

CheckInGetSchedule(p) ==
    /\ pc[p] = "ci_sched"
    /\ LET today == Day(req[p].now)
           res == GetScheduleByUserAndDate(req[p].userID, today)
       IN IF res.err = "ErrNoRows"
             THEN /\ Respond(p, [NoResp EXCEPT !.op = "checkin",
                                    !.status = StatusForbidden,
                                    !.msg = "No schedule found for today",
                                    !.userID = req[p].userID])
                  /\ Finish(p)
             ELSE /\ pc' = [pc EXCEPT ![p] = "ci_insert"]
                  /\ req' = [req EXCEPT ![p].schedFound = (res.row.id # 0)]
                  /\ UNCHANGED response
    /\ Elapse(p)
    /\ UNCHANGED store

\* The schedule lookup fails with a datastore error other than ErrNoRows:
\* the handler logs it and goes on to the INSERT.
CheckInGetScheduleFails(p) ==
    /\ pc[p] = "ci_sched"
    /\ pc' = [pc EXCEPT ![p] = "ci_insert"]
    /\ req' = [req EXCEPT ![p].schedErr = TRUE]
    /\ Elapse(p)
    /\ UNCHANGED <<store, response>>

\* The INSERT fails on FOREIGN KEY (user_id) REFERENCES users when the row of
\* the user is gone; the handler answers 500 for any error of CreateCheckIn.
CheckInInsert(p) ==
    /\ pc[p] = "ci_insert"
    /\ IF req[p].userID \notin users
          THEN /\ Respond(p, [NoResp EXCEPT !.op = "checkin",
                                 !.status = StatusInternalServerError,
                                 !.msg = "Failed to record check-in",
                                 !.userID = req[p].userID,
                                 !.schedErr = req[p].schedErr])
               /\ UNCHANGED <<attendances, nextAttendanceId, checkOutWrites>>
          ELSE /\ attendances' =
                     CreateCheckIn(req[p].userID, req[p].now, req[p].notes)
               /\ nextAttendanceId' = nextAttendanceId + 1
               /\ checkOutWrites' = checkOutWrites @@ (nextAttendanceId :> 0)
               /\ Respond(p, [NoResp EXCEPT !.op = "checkin",
                                 !.status = StatusOK,
                                 !.msg = "Check-in successful",
                                 !.id = nextAttendanceId,
                                 !.userID = req[p].userID,
                                 !.schedFound = req[p].schedFound,
                                 !.schedErr = req[p].schedErr])
    /\ Finish(p)
    /\ Elapse(p)
    /\ UNCHANGED <<users, shifts, schedules, nextScheduleId>>

\* ------------------------------------------------ UserHandler.CheckOut
CheckOutStart(p, userID, notes) ==
    /\ pc[p] = "idle"
    /\ pc' = [pc EXCEPT ![p] = "co_last"]
    /\ req' = [req EXCEPT ![p] = [NoReq EXCEPT !.userID = userID,
                                               !.now = clock,
                                               !.notes = notes]]
    /\ UNCHANGED <<store, clock, response>>

\* (mutation) the already-checked-out test left out
AlreadyCheckedOutNever(lastAtt) == FALSE

\* lastAtt.CheckOutAt != nil
AlreadyCheckedOut(lastAtt) == lastAtt.check_out_at # NULL

CheckOutGetLast(p) ==
    /\ pc[p] = "co_last"
    /\ IF GetLastAttendance(req[p].userID) = {}
          THEN /\ Respond(p, [NoResp EXCEPT !.op = "checkout",
                                 !.status = StatusNotFound,
                                 !.msg = "No active check-in found to check out from",
                                 !.userID = req[p].userID])
               /\ Finish(p)
          ELSE \E lastAtt \in GetLastAttendance(req[p].userID) :
                 IF AlreadyCheckedOut(lastAtt)
                    THEN /\ Respond(p, [NoResp EXCEPT !.op = "checkout",
                                           !.status = StatusConflict,
                                           !.msg = "User has already checked out for the last session",
                                           !.id = lastAtt.id,
                                           !.userID = req[p].userID])
                         /\ Finish(p)
                    ELSE /\ pc' = [pc EXCEPT ![p] = "co_update"]
                         /\ req' = [req EXCEPT ![p].lastAttID = lastAtt.id]
                         /\ UNCHANGED response
    /\ Elapse(p)
    /\ UNCHANGED store

\* status the handler sends when UpdateCheckOut reports zero affected rows
\* ("attendance record %d not found or already checked out")
ZeroRowsStatus == StatusNotFound

CheckOutUpdate(p) ==
    /\ pc[p] = "co_update"
    /\ IF UpdateCheckOutRows(req[p].lastAttID) = {}
          THEN /\ Respond(p, [NoResp EXCEPT !.op = "checkout",
                                 !.status = ZeroRowsStatus,
                                 !.msg = "attendance record not found or already checked out",
                                 !.id = req[p].lastAttID,
                                 !.userID = req[p].userID])
               /\ UNCHANGED <<attendances, checkOutWrites>>
          ELSE /\ attendances' = UpdateCheckOut(req[p].lastAttID, req[p].now,
                                                req[p].notes)
               /\ checkOutWrites' =
                     [checkOutWrites EXCEPT ![req[p].lastAttID] = @ + 1]
               /\ Respond(p, [NoResp EXCEPT !.op = "checkout",
                                 !.status = StatusOK,
                                 !.msg = "Check-out successful",
                                 !.id = req[p].lastAttID,
                                 !.userID = req[p].userID])
    /\ Finish(p)
    /\ Elapse(p)
    /\ UNCHANGED <<users, shifts, schedules, nextScheduleId, nextAttendanceId>>

\* Any other statement of CheckIn or CheckOut fails with a datastore error:
\* the handler answers 500 and the statement has changed nothing.
StatementFails(p) ==
    /\ pc[p] \in {"ci_last", "ci_insert", "co_last", "co_update"}
    /\ Respond(p, [NoResp EXCEPT
                     !.op = IF pc[p] \in {"ci_last", "ci_insert"}
                               THEN "checkin" ELSE "checkout",
                     !.status = StatusInternalServerError,
                     !.msg = CASE pc[p] = "ci_last" ->
                                     "Failed to process check-in"
                               [] pc[p] = "ci_insert" ->
                                     "Failed to record check-in"
                               [] pc[p] = "co_last" ->
                                     "Failed to process check-out"
                               [] OTHER -> "Failed to record check-out",
                     !.userID = req[p].userID,
                     !.schedErr = req[p].schedErr])
    /\ Finish(p)
    /\ Elapse(p)
    /\ UNCHANGED store

\* ------------------------------------------- scheduleRepo (statements)
\* validate:"required" on UserID, ShiftID and Date of models.UserSchedule
ValidateStruct(input) ==
    input.user_id # 0 /\ input.shift_id # 0 /\ input.date # ""

\* (mutation) a table without the UNIQUE (user_id, date) constraint
UniqueViolationNever(others, userID, date) == FALSE

\* UNIQUE (user_id, date) of user_schedules, checked against the rows `others`
UniqueViolation(others, userID, date) ==
    \E s \in others : s.user_id = userID /\ s.date = date

\* (mutation) a table without its foreign keys
ForeignKeyViolationNever(userID, shiftID) == FALSE

\* FOREIGN KEY (user_id) REFERENCES users, (shift_id) REFERENCES shifts
ForeignKeyViolation(userID, shiftID) ==
    userID \notin users \/ shiftID \notin shifts

\* error of scheduleRepo.CreateSchedule; the unique index is checked when
\* the row is inserted, the foreign keys at the end of the statement
CreateScheduleErr(schedule) ==
    IF ParseDate(schedule.date) = ParseError
       THEN "invalid date format"
    ELSE IF UniqueViolation(schedules, schedule.user_id, ParseDate(schedule.date))
       THEN "already has a schedule on"
    ELSE IF ForeignKeyViolation(schedule.user_id, schedule.shift_id)
       THEN "invalid user_id or shift_id"
    ELSE "nil"

\* (mutation) a uniqueness check that also counts the row being updated
UpdateScheduleOthersAndSelf(id) == schedules

\* rows the uniqueness check of UPDATE ... WHERE id = $4 compares against
UpdateScheduleOthers(id) == {s \in schedules : s.id # id}

\* error of scheduleRepo.UpdateSchedule
UpdateScheduleErr(schedule, id) ==
    IF ParseDate(schedule.date) = ParseError
       THEN "invalid date format"
    ELSE IF {s \in schedules : s.id = id} = {}
       THEN "ErrNoRows"
    ELSE IF UniqueViolation(UpdateScheduleOthers(id), schedule.user_id,
                            ParseDate(schedule.date))
       THEN "already has a schedule on"
    ELSE IF ForeignKeyViolation(schedule.user_id, schedule.shift_id)
       THEN "invalid user_id or shift_id"
    ELSE "nil"

\* ------------------------------------------ AdminHandler.CreateSchedule
\* status for an error of the repository (the strings.Contains chain)
ScheduleErrStatus(err) ==
    CASE err = "ErrNoRows" -> StatusNotFound
      [] err = "already has a schedule on" -> StatusConflict
      [] err = "invalid user_id or shift_id" -> StatusBadRequest
      [] err = "invalid date format" -> StatusBadRequest
      [] OTHER -> StatusInternalServerError

AdminCreateSchedule(p, input) ==
    /\ pc[p] = "idle"
    /\ IF ~ValidateStruct(input)
          THEN /\ Respond(p, [NoResp EXCEPT !.op = "createSchedule",
                                 !.status = StatusBadRequest,
                                 !.msg = "Validation failed"])
               /\ UNCHANGED <<schedules, nextScheduleId>>
          ELSE LET err == CreateScheduleErr(input) IN
               IF err # "nil"
                  THEN /\ Respond(p, [NoResp EXCEPT !.op = "createSchedule",
                                         !.status = ScheduleErrStatus(err),
                                         !.msg = err])
                       /\ UNCHANGED <<schedules, nextScheduleId>>
                  ELSE /\ nextScheduleId <= MaxSchedules
                       /\ schedules' = schedules \cup
                             {[id |-> nextScheduleId, user_id |-> input.user_id,
                               shift_id |-> input.shift_id,
                               date |-> ParseDate(input.date)]}
                       /\ nextScheduleId' = nextScheduleId + 1
                       /\ Respond(p, [NoResp EXCEPT !.op = "createSchedule",
                                         !.status = StatusCreated,
                                         !.msg = "Schedule created successfully",
                                         !.id = nextScheduleId])
    /\ UNCHANGED <<users, shifts, attendances, nextAttendanceId,
                   checkOutWrites, clock, pc, req>>

\* ------------------------------------------ AdminHandler.UpdateSchedule
\* Body validation, then h.UserRepo.GetUserByID and h.ShiftRepo.GetShiftByID
\* (errUser != nil || errShift != nil). The two lookups read users and shifts,
\* which no request modelled here writes, so they are taken in one step.
AdminUpdateScheduleStart(p, id, input) ==
    /\ pc[p] = "idle"
    /\ IF ~ValidateStruct(input)
          THEN /\ Respond(p, [NoResp EXCEPT !.op = "updateSchedule",
                                 !.status = StatusBadRequest,
                                 !.msg = "Validation failed",
                                 !.id = id])
               /\ UNCHANGED <<pc, req>>
          ELSE IF input.user_id \notin users \/ input.shift_id \notin shifts
          THEN /\ Respond(p, [NoResp EXCEPT !.op = "updateSchedule",
                                 !.status = StatusBadRequest,
                                 !.msg = "Invalid User ID or Shift ID provided",
                                 !.id = id])
               /\ UNCHANGED <<pc, req>>
          ELSE /\ pc' = [pc EXCEPT ![p] = "us_exec"]
               /\ req' = [req EXCEPT ![p] =
                             [NoReq EXCEPT !.scheduleID = id, !.input = input]]
               /\ UNCHANGED response
    /\ UNCHANGED <<store, clock>>

\* h.ScheduleRepo.UpdateSchedule and the response
AdminUpdateScheduleExec(p) ==
    /\ pc[p] = "us_exec"
    /\ LET input == req[p].input
           id == req[p].scheduleID
           err == UpdateScheduleErr(input, id)
       IN IF err # "nil"
             THEN /\ Respond(p, [NoResp EXCEPT !.op = "updateSchedule",
                                    !.status = ScheduleErrStatus(err),
                                    !.msg = err,
                                    !.id = id])
                  /\ UNCHANGED schedules
             ELSE /\ schedules' =
                        {IF s.id = id
                            THEN [s EXCEPT !.user_id = input.user_id,
                                           !.shift_id = input.shift_id,
                                           !.date = ParseDate(input.date)]
                            ELSE s : s \in schedules}
                  /\ Respond(p, [NoResp EXCEPT !.op = "updateSchedule",
                                    !.status = StatusOK,
                                    !.msg = "Schedule updated successfully",
                                    !.id = id])
    /\ Finish(p)
    /\ UNCHANGED <<users, shifts, nextScheduleId, attendances,
                   nextAttendanceId, checkOutWrites, clock>>

\* ------------------------------------------ AdminHandler.DeleteSchedule
\* (mutation) a DELETE that matches the user of the row instead of its id
DeleteScheduleOfUser(id) ==
    {s \in schedules :
        \A d \in schedules : d.id = id => d.user_id # s.user_id}

\* scheduleRepo.DeleteSchedule: DELETE FROM user_schedules WHERE id = $1
DeleteSchedule(id) == {s \in schedules : s.id # id}

\* zero rows is pgx.ErrNoRows, answered 404
AdminDeleteSchedule(p, id) ==
    /\ pc[p] = "idle"
    /\ IF {s \in schedules : s.id = id} = {}
          THEN /\ Respond(p, [NoResp EXCEPT !.op = "deleteSchedule",
                                 !.status = StatusNotFound,
                                 !.msg = "Schedule not found",
                                 !.id = id])
               /\ UNCHANGED schedules
          ELSE /\ schedules' = DeleteSchedule(id)
               /\ Respond(p, [NoResp EXCEPT !.op = "deleteSchedule",
                                 !.status = StatusOK,
                                 !.msg = "Schedule deleted successfully",
                                 !.id = id])
    /\ UNCHANGED <<users, shifts, nextScheduleId, attendances,
                   nextAttendanceId, checkOutWrites, clock, pc, req>>

\* ------------------------------------------------------------ tokens
\* The wall clock of the token runs counts TicksPerSecond ticks per second;
\* the clock of the request runs counts TicksPerDay ticks per day.
TicksPerSecond == 2
SecondsPerHour == 3600
HoursPerDay == 24
TokenHours == 72

\* time.Hour * 72 in ticks
TokenLifetime == TokenHours * SecondsPerHour * TicksPerSecond

\* the clock of the request runs, in ticks of the token clock
UnixTicks(t) ==
    (t * HoursPerDay * SecondsPerHour * TicksPerSecond) \div TicksPerDay

\* jwt.NewNumericDate(t): the time truncated to the whole second
NewNumericDate(t) == t - (t % TicksPerSecond)

\* the value the configuration gives JWT_SECRET, and the value of a
\* variable that is not in the environment
JwtSecret == "JWT_SECRET"
Unset == ""

\* utils.JwtClaims
NoClaims == [user_id |-> 0, username |-> "", role |-> "",
             exp |-> 0, iat |-> 0, nbf |-> 0, iss |-> ""]

\* HMAC of header and payload under a key: equal signatures come from equal
\* algorithm, payload and key
SignedString(alg, claims, key) == [alg |-> alg, claims |-> claims, key |-> key]

NoSignature == SignedString("", NoClaims, "")

\* utils.ExtractToken returns "" for a header without a token
EmptyToken == [alg |-> "", claims |-> NoClaims, sig |-> NoSignature]

GenerateJWT(userID, username, role, now) ==
    LET claims == [user_id |-> userID, username |-> username, role |-> role,
                   exp |-> NewNumericDate(now + TokenLifetime),
                   iat |-> NewNumericDate(now),
                   nbf |-> NewNumericDate(now),
                   iss |-> "absensi-app"]
    IN [alg |-> "HS256", claims |-> claims,
        sig |-> SignedString("HS256", claims, jwtSecret)]

\* token.Method.(*jwt.SigningMethodHMAC)
SigningMethodHMAC == {"HS256", "HS384", "HS512"}

\* (mutation) an expiry test that still accepts the token at exp itself
NotExpiredInclusive(exp, now) == now <= exp

\* the validator's test of exp: now.Before(exp)
NotExpired(exp, now) == now < exp

SignatureValid(tokenString) ==
    tokenString.sig =
        SignedString(tokenString.alg, tokenString.claims, jwtSecret)

\* jwt.ParseWithClaims with the key function of ValidateJWT, then token.Valid
ValidateJWT(tokenString, now) ==
    IF tokenString.alg \notin SigningMethodHMAC
       THEN [claims |-> NoClaims, err |-> "unexpected signing method"]
    ELSE IF ~SignatureValid(tokenString)
       THEN [claims |-> NoClaims, err |-> "signature is invalid"]
    ELSE IF ~NotExpired(tokenString.claims.exp, now)
       THEN [claims |-> NoClaims, err |-> "token is expired"]
    ELSE IF now < tokenString.claims.nbf
       THEN [claims |-> NoClaims, err |-> "token is not valid yet"]
    ELSE [claims |-> tokenString.claims, err |-> "nil"]

\* the Authorization header, as strings.Split(bearToken, " ") sees it
NoHeader == [parts |-> 1, scheme |-> "", token |-> EmptyToken]
Bearer(tokenString) == [parts |-> 2, scheme |-> "Bearer", token |-> tokenString]
ExtraSpace(tokenString) ==
    [parts |-> 3, scheme |-> "Bearer", token |-> tokenString]

ExtractToken(header) ==
    IF header.parts = 2 THEN header.token ELSE EmptyToken

\* what a client can make of a token without the key
AlterPayload(tokenString) ==
    [tokenString EXCEPT !.claims.role = "Admin",
                        !.claims.exp = @ + TokenLifetime]
AlterSignature(tokenString) ==
    [tokenString EXCEPT !.sig.key = "guess"]
AlgNone(tokenString) ==
    [tokenString EXCEPT !.alg = "none", !.sig = NoSignature]

\* the token a holder of the key makes of the same claims under another
\* algorithm
Resign(tokenString, alg) ==
    [alg |-> alg, claims |-> tokenString.claims,
     sig |-> SignedString(alg, tokenString.claims, jwtSecret)]

\* ------------------------------------------------------- middleware
StatusUnauthorized == 401

\* c.Locals("user") is empty until Protected stores the claims
NewCtx(header) == [header |-> header, locals |-> NoClaims]

\* middleware.Protected; next says whether c.Next() is called
Protected(c, now) ==
    LET tokenString == ExtractToken(c.header)
        res == ValidateJWT(tokenString, now)
    IN IF tokenString = EmptyToken
          THEN [c |-> c, next |-> FALSE, status |-> StatusUnauthorized,
                msg |-> "Unauthorized: Missing token"]
       ELSE IF res.err # "nil"
          THEN [c |-> c, next |-> FALSE, status |-> StatusUnauthorized,
                msg |-> "Unauthorized: Invalid token"]
       ELSE [c |-> [c EXCEPT !.locals = res.claims], next |-> TRUE,
             status |-> 0, msg |-> ""]

\* strings.EqualFold on the role names in use
Fold(s) ==
    CASE s \in {"Admin", "admin", "ADMIN"} -> "admin"
      [] s \in {"Employee", "employee"} -> "employee"
      [] s \in {"Manager", "manager"} -> "manager"
      [] OTHER -> s

EqualFold(a, b) == Fold(a) = Fold(b)

\* (mutation) a gate that lets a request without claims through
AuthorizeFailOpen(allowedRoles, c) ==
    IF c.locals = NoClaims
       THEN [c |-> c, next |-> TRUE, status |-> 0, msg |-> ""]
    ELSE IF \E i \in 1..Len(allowedRoles) :
                EqualFold(c.locals.role, allowedRoles[i])
       THEN [c |-> c, next |-> TRUE, status |-> 0, msg |-> ""]
    ELSE [c |-> c, next |-> FALSE, status |-> StatusForbidden,
          msg |-> "Forbidden: Insufficient privileges"]

\* middleware.Authorize(allowedRoles...)
Authorize(allowedRoles, c) ==
    IF c.locals = NoClaims
       THEN [c |-> c, next |-> FALSE, status |-> StatusForbidden,
             msg |-> "Forbidden: Cannot determine user role"]
    ELSE IF \E i \in 1..Len(allowedRoles) :
                EqualFold(c.locals.role, allowedRoles[i])
       THEN [c |-> c, next |-> TRUE, status |-> 0, msg |-> ""]
    ELSE [c |-> c, next |-> FALSE, status |-> StatusForbidden,
          msg |-> "Forbidden: Insufficient privileges"]

\* utils.ExtractUserIDFromJWT: 0 (and an error) without claims
ExtractUserIDFromJWT(c) == c.locals.user_id

\* ------------------------------------------------------------ routes
\* (mutation) the admin group without its Authorize("Admin")
AdminChainProtectedOnly == <<[mw |-> "Protected", roles |-> <<>>]>>

\* api.Group("/admin", middleware.Protected(), middleware.Authorize("Admin"))
AdminChain ==
    <<[mw |-> "Protected", roles |-> <<>>],
      [mw |-> "Authorize", roles |-> <<"Admin">>]>>

\* api.Group("/user", middleware.Protected())
UserChain == <<[mw |-> "Protected", roles |-> <<>>]>>

\* api.Get("/shifts", userHandler.GetAllShifts)
ShiftsChain == <<>>

\* fiber runs the handlers of a route in order; each goes on with c.Next()
RECURSIVE RunChain(_, _, _, _)
RunChain(chain, c, now, called) ==
    IF chain = <<>>
       THEN [c |-> c, status |-> 0, msg |-> "", trace |-> called]
       ELSE LET h == Head(chain)
                r == IF h.mw = "Protected"
                        THEN Protected(c, now)
                        ELSE Authorize(h.roles, c)
            IN IF r.next
                  THEN RunChain(Tail(chain), r.c, now, Append(called, h.mw))
                  ELSE [c |-> r.c, status |-> r.status, msg |-> r.msg,
                        trace |-> Append(called, h.mw)]

Dispatch(chain, header) ==
    RunChain(chain, NewCtx(header), UnixTicks(clock), <<>>)

\* ------------------------------------------------- AuthHandler.Login
\* users.username of the users of the directory
Username(userID) ==
    CASE userID = 1 -> "alice"
      [] userID = 2 -> "bob"
      [] OTHER -> ""

Email(userID) ==
    CASE userID = 1 -> "alice@x.io"
      [] userID = 2 -> "bob@x.io"
      [] OTHER -> ""

NoProfile == [username |-> "", email |-> ""]

\* roles.name of a role id (user.Role.Name, loaded with the user)
RoleName(roleID) ==
    IF \E r \in roles : r.id = roleID
       THEN (CHOOSE r \in roles : r.id = roleID).name
       ELSE ""

NoIssued == [token |-> EmptyToken, at |-> 0]

\* UserRepository.GetUserByUsername: the row of the user, with its role, or
\* ErrNoRows
GetUserByUsernameErr(userID) ==
    IF userID \in users THEN "nil" ELSE "ErrNoRows"

\* GetUserByUsername, CheckPasswordHash, GenerateJWT; now is time.Now()
Login(p, userID, passwordOK, now) ==
    /\ pc[p] = "idle"
    /\ IF GetUserByUsernameErr(userID) # "nil" \/ ~passwordOK
          THEN /\ Respond(p, [NoResp EXCEPT !.op = "login",
                                 !.status = StatusUnauthorized,
                                 !.msg = "Invalid username or password"])
               /\ UNCHANGED issued
          ELSE /\ issued' = [issued EXCEPT ![userID] =
                    [token |-> GenerateJWT(userID, Username(userID),
                                           RoleName(userRole[userID]), now),
                     at |-> now]]
               /\ Respond(p, [NoResp EXCEPT !.op = "login",
                                 !.status = StatusOK,
                                 !.msg = "Login successful",
                                 !.userID = userID])
    /\ ctx' = NewCtx(NoHeader)
    /\ trace' = <<"Login">>
    /\ UNCHANGED <<store, clock, pc, req, directory, wall, startup,
                   reports>>

\* --------------------------------------------- AdminHandler.DeleteShift
\* (mutation) a DELETE that the schedules of the shift do not block
ShiftReferencedNever(id) == FALSE

\* FOREIGN KEY (shift_id) REFERENCES shifts(id) ON DELETE RESTRICT
ShiftReferenced(id) == \E s \in schedules : s.shift_id = id

\* DELETE FROM shifts WHERE id = $1: ErrNoRows for zero rows, 23503 when a
\* schedule references the shift
AdminDeleteShift(p, id) ==
    /\ pc[p] = "idle"
    /\ IF id \notin shifts
          THEN /\ Respond(p, [NoResp EXCEPT !.op = "deleteShift",
                                 !.status = StatusNotFound,
                                 !.msg = "Shift not found",
                                 !.id = id])
               /\ UNCHANGED shifts
          ELSE IF ShiftReferenced(id)
          THEN /\ Respond(p, [NoResp EXCEPT !.op = "deleteShift",
                                 !.status = StatusConflict,
                                 !.msg = "cannot delete shift: it is still referenced by user schedules",
                                 !.id = id])
               /\ UNCHANGED shifts
          ELSE /\ shifts' = shifts \ {id}
               /\ Respond(p, [NoResp EXCEPT !.op = "deleteShift",
                                 !.status = StatusOK,
                                 !.msg = "Shift deleted successfully",
                                 !.id = id])
    /\ UNCHANGED <<users, schedules, nextScheduleId, attendances,
                   nextAttendanceId, checkOutWrites, clock, pc, req>>

\* ---------------------------------------------- AdminHandler.DeleteUser
\* (mutation) the handler without its self-delete test
IsSelfDeleteNever(targetUserId, adminUserId) == FALSE

\* targetUserId == adminUserId
IsSelfDelete(targetUserId, adminUserId) == targetUserId = adminUserId

\* UserRepository.DeleteUserByID: ErrNoRows when no row has the id ...
DeleteUserByIDErr(id) == IF id \in users THEN "nil" ELSE "ErrNoRows"

\* ... and otherwise the row of users is removed
DeleteUserByID(id) == users \ {id}

\* user_schedules: FOREIGN KEY (user_id) REFERENCES users(id) ON DELETE CASCADE
CascadeSchedules(id) == {s \in schedules : s.user_id # id}

\* attendances: FOREIGN KEY (user_id) REFERENCES users(id) ON DELETE CASCADE
CascadeAttendances(id) == {a \in attendances : a.user_id # id}

\* ExtractUserIDFromJWT, the self-delete test, then UserRepo.DeleteUserByID
AdminDeleteUser(p, adminUserId, targetUserId) ==
    /\ pc[p] = "idle"
    /\ IF IsSelfDelete(targetUserId, adminUserId)
          THEN /\ Respond(p, [NoResp EXCEPT !.op = "deleteUser",
                                 !.status = StatusForbidden,
                                 !.msg = "Admin cannot delete their own account",
                                 !.id = targetUserId,
                                 !.userID = adminUserId])
               /\ UNCHANGED <<users, userRole, profiles, schedules,
                              attendances>>
          ELSE IF DeleteUserByIDErr(targetUserId) # "nil"
          THEN /\ Respond(p, [NoResp EXCEPT !.op = "deleteUser",
                                 !.status = StatusNotFound,
                                 !.msg = "User not found",
                                 !.id = targetUserId,
                                 !.userID = adminUserId])
               /\ UNCHANGED <<users, userRole, profiles, schedules,
                              attendances>>
          ELSE /\ users' = DeleteUserByID(targetUserId)
               /\ userRole' = [userRole EXCEPT ![targetUserId] = 0]
               /\ profiles' = [profiles EXCEPT ![targetUserId] = NoProfile]
               /\ schedules' = CascadeSchedules(targetUserId)
               /\ attendances' = CascadeAttendances(targetUserId)
               /\ Respond(p, [NoResp EXCEPT !.op = "deleteUser",
                                 !.status = StatusOK,
                                 !.msg = "User deleted successfully",
                                 !.id = targetUserId,
                                 !.userID = adminUserId])
    /\ UNCHANGED <<shifts, nextScheduleId, nextAttendanceId, checkOutWrites,
                   clock, pc, req, roleTable, nextUserId>>

\* ---------------------------------------------- AdminHandler.UpdateUser
\* validate:"required,min=3,max=100" on Username, "required,email" on Email
MinUsername == 3
MaxUsername == 100
WellFormedEmails == {"alice@x.io", "bob@x.io", "carol@x.io"}

ValidateProfile(input) ==
    /\ Len(input.username) >= MinUsername
    /\ Len(input.username) <= MaxUsername
    /\ input.email \in WellFormedEmails

\* (mutation) a users table without its UNIQUE constraints
DuplicateUserNever(rows, input) == FALSE

\* users: username VARCHAR(100) UNIQUE NOT NULL, email VARCHAR(255) UNIQUE
\* NOT NULL, tested against the rows other than the one written
DuplicateUser(rows, input) ==
    \E u \in rows :
       \/ profiles[u].username = input.username
       \/ profiles[u].email = input.email

\* UserRepo.UpdateUserByID / UpdateUserProfile: no row with that id, or a
\* row of another user that has the username or the email
UpdateUserByIDErr(id) == IF id \in users THEN "nil" ELSE "ErrNoRows"

UpdateUserErr(id, input) ==
    IF id \notin users THEN "ErrNoRows"
    ELSE IF DuplicateUser(users \ {id}, input) THEN "already exists"
    ELSE "nil"

UpdateUserByID(id, roleID) == [userRole EXCEPT ![id] = roleID]

UpdateUserProfile(id, input) ==
    [profiles EXCEPT ![id] = [username |-> input.username,
                              email |-> input.email]]

\* validate the body, RoleRepo.GetRoleByID, then UserRepo.UpdateUserByID
UpdateUser(p, targetUserId, input) ==
    /\ pc[p] = "idle"
    /\ IF ~ValidateProfile(input) \/ input.role_id <= 0
          THEN /\ Respond(p, [NoResp EXCEPT !.op = "updateUser",
                                 !.status = StatusBadRequest,
                                 !.msg = "Validation failed",
                                 !.id = targetUserId])
               /\ UNCHANGED <<userRole, profiles>>
          ELSE IF ~\E r \in roles : r.id = input.role_id
          THEN /\ Respond(p, [NoResp EXCEPT !.op = "updateUser",
                                 !.status = StatusBadRequest,
                                 !.msg = "Invalid Role ID",
                                 !.id = targetUserId])
               /\ UNCHANGED <<userRole, profiles>>
          ELSE IF UpdateUserErr(targetUserId, input) = "ErrNoRows"
          THEN /\ Respond(p, [NoResp EXCEPT !.op = "updateUser",
                                 !.status = StatusNotFound,
                                 !.msg = "User not found",
                                 !.id = targetUserId])
               /\ UNCHANGED <<userRole, profiles>>
          ELSE IF UpdateUserErr(targetUserId, input) = "already exists"
          THEN /\ Respond(p, [NoResp EXCEPT !.op = "updateUser",
                                 !.status = StatusConflict,
                                 !.msg = "already exists",
                                 !.id = targetUserId])
               /\ UNCHANGED <<userRole, profiles>>
          ELSE /\ userRole' = UpdateUserByID(targetUserId, input.role_id)
               /\ profiles' = UpdateUserProfile(targetUserId, input)
               /\ Respond(p, [NoResp EXCEPT !.op = "updateUser",
                                 !.status = StatusOK,
                                 !.msg = "User updated successfully",
                                 !.id = targetUserId])
    /\ UNCHANGED <<store, clock, pc, req, roleTable, nextUserId>>

\* the request that gives a user the role roleID and keeps the username
\* and the email of the row
AdminUpdateUser(p, targetUserId, roleID) ==
    UpdateUser(p, targetUserId,
               [username |-> IF targetUserId \in users
                                THEN profiles[targetUserId].username
                                ELSE Username(targetUserId),
                email |-> IF targetUserId \in users
                             THEN profiles[targetUserId].email
                             ELSE Email(targetUserId),
                role_id |-> roleID])

\* ------------------------------------------ UserHandler.UpdateMyProfile
\* validate the body, then UserRepo.UpdateUserProfile for the id of the
\* token
UpdateMyProfile(p, userID, input) ==
    /\ pc[p] = "idle"
    /\ IF ~ValidateProfile(input)
          THEN /\ Respond(p, [NoResp EXCEPT !.op = "updateProfile",
                                 !.status = StatusBadRequest,
                                 !.msg = "Validation failed",
                                 !.userID = userID])
               /\ UNCHANGED profiles
          ELSE IF UpdateUserErr(userID, input) = "already exists"
          THEN /\ Respond(p, [NoResp EXCEPT !.op = "updateProfile",
                                 !.status = StatusConflict,
                                 !.msg = "already exists",
                                 !.userID = userID])
               /\ UNCHANGED profiles
          ELSE IF UpdateUserErr(userID, input) = "ErrNoRows"
          THEN /\ Respond(p, [NoResp EXCEPT !.op = "updateProfile",
                                 !.status = StatusNotFound,
                                 !.msg = "User not found",
                                 !.userID = userID])
               /\ UNCHANGED profiles
          ELSE /\ profiles' = UpdateUserProfile(userID, input)
               /\ Respond(p, [NoResp EXCEPT !.op = "updateProfile",
                                 !.status = StatusOK,
                                 !.msg = "Profile updated successfully",
                                 !.userID = userID])
    /\ UNCHANGED <<store, clock, pc, req, roleTable, userRole, nextUserId>>

\* ------------------------------------------------ AuthHandler.Register
\* validate:"required,min=6" on Password
MinPassword == 6

\* UserRepo.CreateUser: the INSERT fails on a UNIQUE constraint, or on
\* FOREIGN KEY (role_id) REFERENCES roles
CreateUserErr(input) ==
    IF DuplicateUser(users, input) THEN "23505"
    ELSE IF ~\E r \in roles : r.id = input.role_id THEN "23503"
    ELSE "nil"

\* validate the body, RoleRepo.GetRoleByID, HashPassword, UserRepo.CreateUser
Register(p, input) ==
    /\ pc[p] = "idle"
    /\ IF ~ValidateProfile(input) \/ Len(input.password) < MinPassword
          \/ input.role_id <= 0
          THEN /\ Respond(p, [NoResp EXCEPT !.op = "register",
                                 !.status = StatusBadRequest,
                                 !.msg = "Validation failed"])
               /\ UNCHANGED <<users, userRole, accounts>>
          ELSE IF ~\E r \in roles : r.id = input.role_id
          THEN /\ Respond(p, [NoResp EXCEPT !.op = "register",
                                 !.status = StatusBadRequest,
                                 !.msg = "Role not found"])
               /\ UNCHANGED <<users, userRole, accounts>>
          ELSE IF CreateUserErr(input) = "23505"
          THEN /\ Respond(p, [NoResp EXCEPT !.op = "register",
                                 !.status = StatusConflict,
                                 !.msg = "Username or Email already exists"])
               /\ nextUserId' = nextUserId + 1
               /\ UNCHANGED <<users, userRole, profiles>>
          ELSE /\ users' = users \cup {nextUserId}
               /\ userRole' = (nextUserId :> input.role_id) @@ userRole
               /\ profiles' = (nextUserId :> [username |-> input.username,
                                              email |-> input.email])
                                 @@ profiles
               /\ nextUserId' = nextUserId + 1
               /\ Respond(p, [NoResp EXCEPT !.op = "register",
                                 !.status = StatusCreated,
                                 !.msg = "User registered successfully",
                                 !.id = nextUserId])
    /\ UNCHANGED <<shifts, schedules, nextScheduleId, attendances,
                   nextAttendanceId, checkOutWrites, clock, pc, req,
                   roleTable>>

\* ------------------------------------------- AdminHandler: role handlers
\* models.Role: Name validate:"required,min=3,max=50"
MinRoleName == 3
MaxRoleName == 50

ValidateRole(name) == Len(name) >= MinRoleName /\ Len(name) <= MaxRoleName

\* roles.name VARCHAR(50) NOT NULL UNIQUE
RoleNameTaken(rows, name) == \E r \in rows : r.name = name

\* RoleRepository.CreateRole: INSERT of a row with the next id of the sequence
CreateRoleErr(name) ==
    IF RoleNameTaken(roles, name) THEN "already exists" ELSE "nil"

\* a nextval of the sequence is consumed by a failed INSERT too
AdminCreateRole(p, name) ==
    /\ pc[p] = "idle"
    /\ IF ~ValidateRole(name)
          THEN /\ Respond(p, [NoResp EXCEPT !.op = "createRole",
                                 !.status = StatusBadRequest,
                                 !.msg = "Validation failed: role name is required"])
               /\ UNCHANGED roleTable
          ELSE IF CreateRoleErr(name) # "nil"
          THEN /\ Respond(p, [NoResp EXCEPT !.op = "createRole",
                                 !.status = StatusConflict,
                                 !.msg = "already exists"])
               /\ nextRoleId' = nextRoleId + 1
               /\ UNCHANGED roles
          ELSE /\ roles' = roles \cup {[id |-> nextRoleId, name |-> name]}
               /\ nextRoleId' = nextRoleId + 1
               /\ Respond(p, [NoResp EXCEPT !.op = "createRole",
                                 !.status = StatusCreated,
                                 !.msg = "Role created successfully",
                                 !.id = nextRoleId])
    /\ UNCHANGED <<store, clock, pc, req, userRole, accounts>>

\* RoleRepository.UpdateRole: UPDATE roles SET name WHERE id; ErrNoRows for
\* zero rows, "already exists" when another row carries the name
UpdateRoleErr(id, name) ==
    IF ~\E r \in roles : r.id = id THEN "ErrNoRows"
    ELSE IF RoleNameTaken({r \in roles : r.id # id}, name)
       THEN "already exists"
    ELSE "nil"

UpdateRole(id, name) ==
    {r \in roles : r.id # id} \cup {[id |-> id, name |-> name]}

AdminUpdateRole(p, roleID, name) ==
    /\ pc[p] = "idle"
    /\ IF ~ValidateRole(name)
          THEN /\ Respond(p, [NoResp EXCEPT !.op = "updateRole",
                                 !.status = StatusBadRequest,
                                 !.msg = "Validation failed: role name is required",
                                 !.id = roleID])
               /\ UNCHANGED roles
          ELSE IF UpdateRoleErr(roleID, name) = "ErrNoRows"
          THEN /\ Respond(p, [NoResp EXCEPT !.op = "updateRole",
                                 !.status = StatusNotFound,
                                 !.msg = "Role not found",
                                 !.id = roleID])
               /\ UNCHANGED roles
          ELSE IF UpdateRoleErr(roleID, name) = "already exists"
          THEN /\ Respond(p, [NoResp EXCEPT !.op = "updateRole",
                                 !.status = StatusConflict,
                                 !.msg = "already exists",
                                 !.id = roleID])
               /\ UNCHANGED roles
          ELSE /\ roles' = UpdateRole(roleID, name)
               /\ Respond(p, [NoResp EXCEPT !.op = "updateRole",
                                 !.status = StatusOK,
                                 !.msg = "Role updated successfully",
                                 !.id = roleID])
    /\ UNCHANGED <<store, clock, pc, req, nextRoleId, userRole,
                   accounts>>

\* (mutation) the handler without its test of the base roles
IsBaseRoleNever(roleID) == FALSE

\* roleID == 1 || roleID == 2
IsBaseRole(roleID) == roleID = 1 \/ roleID = 2

\* users: FOREIGN KEY (role_id) REFERENCES roles(id)
RoleReferenced(id) == \E u \in users : userRole[u] = id

\* RoleRepository.DeleteRole: ErrNoRows for zero rows, "still assigned to this
\* role" while a user references the role
DeleteRoleErr(id) ==
    IF ~\E r \in roles : r.id = id THEN "ErrNoRows"
    ELSE IF RoleReferenced(id) THEN "still assigned to this role"
    ELSE "nil"

DeleteRole(id) == {r \in roles : r.id # id}

AdminDeleteRole(p, roleID) ==
    /\ pc[p] = "idle"
    /\ IF IsBaseRole(roleID)
          THEN /\ Respond(p, [NoResp EXCEPT !.op = "deleteRole",
                                 !.status = StatusForbidden,
                                 !.msg = "Cannot delete base roles (Admin/Employee)",
                                 !.id = roleID])
               /\ UNCHANGED roles
          ELSE IF DeleteRoleErr(roleID) = "ErrNoRows"
          THEN /\ Respond(p, [NoResp EXCEPT !.op = "deleteRole",
                                 !.status = StatusNotFound,
                                 !.msg = "Role not found",
                                 !.id = roleID])
               /\ UNCHANGED roles
          ELSE IF DeleteRoleErr(roleID) = "still assigned to this role"
          THEN /\ Respond(p, [NoResp EXCEPT !.op = "deleteRole",
                                 !.status = StatusConflict,
                                 !.msg = "still assigned to this role",
                                 !.id = roleID])
               /\ UNCHANGED roles
          ELSE /\ roles' = DeleteRole(roleID)
               /\ Respond(p, [NoResp EXCEPT !.op = "deleteRole",
                                 !.status = StatusOK,
                                 !.msg = "Role deleted successfully",
                                 !.id = roleID])
    /\ UNCHANGED <<store, clock, pc, req, nextRoleId, userRole,
                   accounts>>

\* ---------------------------------------------- UserHandler.GetAllShifts
\* the error of ExtractUserIDFromJWT is ignored; the shifts are sent
GetAllShifts(p) ==
    /\ pc[p] = "idle"
    /\ Respond(p, [NoResp EXCEPT !.op = "getAllShifts",
                      !.status = StatusOK,
                      !.msg = "Shifts retrieved successfully"])
    /\ UNCHANGED <<store, clock, pc, req>>

\* ------------------------------------------------------------ requests
\* A request whose chain stops: the middleware has sent the response.
Refuse(p, r) ==
    /\ Respond(p, [NoResp EXCEPT !.op = "middleware",
                      !.status = r.status,
                      !.msg = r.msg])
    /\ UNCHANGED <<store, clock, pc, req, directory>>

\* A request on a route: its chain runs, then the handler H does its first
\* (for most handlers, only) step.
Routed(p, chain, header, handler, H) ==
    LET r == Dispatch(chain, header) IN
    /\ pc[p] = "idle"
    /\ ctx' = r.c
    /\ UNCHANGED <<issued, wall, startup, reports>>
    /\ IF r.status = 0
          THEN trace' = Append(r.trace, handler) /\ H
          ELSE trace' = r.trace /\ Refuse(p, r)

\* claims the handler of a route finds in c.Locals("user")
RoutedUserID(chain, header) == ExtractUserIDFromJWT(Dispatch(chain, header).c)

\* -------------------------------------------------------- pagination
\* Go's int, scaled to IntBits bits
IntBits == 16
MaxInt == 2^(IntBits - 1) - 1
MinInt == -(2^(IntBits - 1))

\* the result of an int operation: its value modulo 2^IntBits, signed
Wrap(x) == ((x - MinInt) % 2^IntBits) + MinInt

DefaultPage == 1
DefaultLimit == 10
MaxLimit == 100

\* a query parameter: missing, not a numeral, or the numeral of val
Missing == [kind |-> "missing", val |-> 0]
NotNumeric == [kind |-> "text", val |-> 0]
Numeral(v) == [kind |-> "int", val |-> v]

\* strconv.Atoi(c.Query(key, strconv.Itoa(default))): a numeral out of the
\* range of int is an error (ErrRange)
AtoiQuery(q, default) ==
    CASE q.kind = "missing" -> [val |-> default, err |-> FALSE]
      [] q.kind = "text" -> [val |-> 0, err |-> TRUE]
      [] OTHER -> IF q.val < MinInt \/ q.val > MaxInt
                     THEN [val |-> 0, err |-> TRUE]
                     ELSE [val |-> q.val, err |-> FALSE]

CapLimit(limit) == IF limit > MaxLimit THEN MaxLimit ELSE limit

ParsePaginationParams(pageQuery, limitQuery) ==
    LET p0 == AtoiQuery(pageQuery, DefaultPage)
        page == IF p0.err \/ p0.val < 1 THEN DefaultPage ELSE p0.val
        l0 == AtoiQuery(limitQuery, DefaultLimit)
        l1 == IF l0.err \/ l0.val < 1 THEN DefaultLimit ELSE l0.val
        limit == CapLimit(l1)
    IN [Page |-> page, Limit |-> limit, Offset |-> Wrap((page - 1) * limit)]

NoPagination ==
    [parsed |-> FALSE, page |-> Missing, limit |-> Missing,
     query |-> [Page |-> 0, Limit |-> 0, Offset |-> 0]]

\* float64: MantissaBits significant bits, scaled with int (53 of 64)
MantissaBits == 13

\* a / b rounded to the nearest integer, halves to the even one
RoundHalfEven(a, b) ==
    LET q == a \div b
        r == a % b
    IN IF 2 * r > b \/ (2 * r = b /\ q % 2 = 1) THEN q + 1 ELSE q

\* the exponent e for which 2^(MantissaBits - 1) <= a / (b * 2^e) <
\* 2^MantissaBits, for a, b > 0, searched upwards from e
RECURSIVE Exponent(_, _, _)
Exponent(a, b, e) ==
    IF e >= 0
       THEN IF a < b * 2^(e + MantissaBits) THEN e ELSE Exponent(a, b, e + 1)
       ELSE IF a * 2^(-e) < b * 2^MantissaBits THEN e
                                                ELSE Exponent(a, b, e + 1)

\* the k >= 1 for which 1 <= a * 2^k / b < 2, for 0 < a < b, searched
\* upwards from k
RECURSIVE Normalize(_, _, _)
Normalize(a, b, k) == IF a * 2^k >= b THEN k ELSE Normalize(a, b, k + 1)

\* a float64 is mant * 2^exp; Float64Div(a, b) is the float64 nearest to
\* a / b, for a, b > 0
Float64Div(a, b) ==
    IF a >= b
       THEN LET e == Exponent(a, b, 1 - MantissaBits)
            IN [mant |-> IF e >= 0 THEN RoundHalfEven(a, b * 2^e)
                                   ELSE RoundHalfEven(a * 2^(-e), b),
                exp |-> e]
       ELSE LET e == Normalize(a, b, 1) + MantissaBits - 1
            IN [mant |-> RoundHalfEven(a * 2^e, b), exp |-> -e]

\* float64(n) of an int n > 0, as an integer
Float64(n) ==
    LET f == Float64Div(n, 1)
    IN IF f.exp >= 0 THEN f.mant * 2^f.exp ELSE f.mant \div 2^(-f.exp)

\* math.Ceil
Ceil(f) ==
    IF f.exp >= 0 THEN f.mant * 2^f.exp
                  ELSE (f.mant + 2^(-f.exp) - 1) \div 2^(-f.exp)

\* int(x) of a float64 that no int holds depends on the machine: the
\* smallest int on amd64, the largest on arm64
OutOfRange == {MinInt, MaxInt}

IntOf(x, outOfRange) == IF x > MaxInt \/ x < MinInt THEN outOfRange ELSE x

\* BuildPaginationMeta:
\* int(math.Ceil(float64(totalItems) / float64(limit)))
BuildPaginationMetaOn(totalItems, limit, page, outOfRange) ==
    [CurrentPage |-> page, PerPage |-> limit, TotalItems |-> totalItems,
     TotalPages |-> IF totalItems > 0 /\ limit > 0
                       THEN IntOf(Ceil(Float64Div(Float64(totalItems),
                                                  Float64(limit))),
                                  outOfRange)
                       ELSE 0]

\* the totals of the lists here are far from the largest int
BuildPaginationMeta(totalItems, limit, page) ==
    BuildPaginationMetaOn(totalItems, limit, page, MinInt)

NoMeta ==
    [totalItems |-> 0, limit |-> 0, page |-> 0, called |-> FALSE,
     out |-> BuildPaginationMeta(0, 0, 0)]

\* a handler calls BuildPaginationMeta with the arguments it has
CallBuildPaginationMeta ==
    /\ ~meta.called
    /\ \E outOfRange \in OutOfRange :
          meta' = [meta EXCEPT !.called = TRUE,
                      !.out = BuildPaginationMetaOn(meta.totalItems,
                                                    meta.limit, meta.page,
                                                    outOfRange)]
    /\ UNCHANGED <<store, clock, pc, req, response, directory, pipeline,
                   pagination, listing, scan>>

\* ------------------------------------------------------------- listings
\* time.Date(y, m, d, 0, 0, 0, 0, loc) and
\* time.Date(y, m, d, 23, 59, 59, 999999999, loc): the first and the last
\* instant of day d
StartOfDay(d) == (d - 1) * TicksPerDay
EndOfDay(d) == d * TicksPerDay - 1

\* all instants of the model lie in one month
StartOfMonth(now) == StartOfDay(1)

\* parseDateQueryParam: the default for a missing or malformed value, else
\* midnight at the start of the day
parseDateQueryParam(dateStr, defaultValue) ==
    IF dateStr = "" \/ ParseDate(dateStr) = ParseError
       THEN defaultValue
       ELSE StartOfDay(ParseDate(dateStr))

\* parseAdminDateQueryParams: start_date at the start of its day, end_date
\* at the end of its day, this month up to the end of today by default
parseAdminDateQueryParams(startDateStr, endDateStr, now) ==
    LET startOfMonth == StartOfMonth(now)
        todayEnd == EndOfDay(Day(now))
        startDate == IF startDateStr = ""
                           \/ ParseDate(startDateStr) = ParseError
                        THEN startOfMonth
                        ELSE StartOfDay(ParseDate(startDateStr))
        endDate == IF endDateStr = "" \/ ParseDate(endDateStr) = ParseError
                      THEN todayEnd
                      ELSE EndOfDay(ParseDate(endDateStr))
    IN [startDate |-> startDate, endDate |-> endDate,
        err |-> endDate < startDate]

\* ORDER BY check_in_at DESC, and for the report ", username ASC" (the
\* usernames of the initial users are in the order of their ids)
Precedes(a, b, byUser) ==
    \/ a.check_in_at > b.check_in_at
    \/ byUser /\ a.check_in_at = b.check_in_at /\ a.user_id < b.user_id

\* the orders in which ORDER BY may return rows: every arrangement in
\* which no row comes after one it has to precede
Orderings(rows, byUser) ==
    {s \in [1..Cardinality(rows) -> rows] :
        /\ \A i, j \in 1..Cardinality(rows) : s[i] = s[j] => i = j
        /\ \A i, j \in 1..Cardinality(rows) :
              i < j => ~Precedes(s[j], s[i], byUser)}

\* LIMIT limit OFFSET offset
LimitOffset(s, limit, offset) ==
    IF offset >= Len(s)
       THEN <<>>
       ELSE SubSeq(s, offset + 1,
                   IF offset + limit > Len(s) THEN Len(s)
                                              ELSE offset + limit)

\* offset := (page - 1) * limit; if offset < 0 { offset = 0 }
RepoOffset(page, limit) ==
    LET offset == Wrap((page - 1) * limit)
    IN IF offset < 0 THEN 0 ELSE offset

\* WHERE check_in_at >= $2 AND check_in_at <= $3
CheckedInBetween(a, startDate, endDate) ==
    a.check_in_at >= startDate /\ a.check_in_at <= endDate

\* GetAttendancesByUser: COUNT(*) of the user's rows in the range, then the
\* rows ORDER BY check_in_at DESC LIMIT $4 OFFSET $5
GetAttendancesByUser(userID, startDate, endDate, page, limit) ==
    LET matching == {a \in attendances :
                        /\ a.user_id = userID
                        /\ CheckedInBetween(a, startDate, endDate)}
    IN {[data |-> LimitOffset(s, limit, RepoOffset(page, limit)),
         total |-> Cardinality(matching)] :
           s \in Orderings(matching, FALSE)}

\* GetAllAttendances: the same for the rows of all users, joined with
\* their users, ORDER BY check_in_at DESC, username ASC
GetAllAttendances(startDate, endDate, page, limit) ==
    LET matching == {a \in attendances :
                        /\ a.user_id \in users
                        /\ CheckedInBetween(a, startDate, endDate)}
    IN {[data |-> LimitOffset(s, limit, RepoOffset(page, limit)),
         total |-> Cardinality(matching)] :
           s \in Orderings(matching, TRUE)}

\* ORDER BY us.date ASC, and for all users ", u.username ASC"
ScheduledBefore(a, b, byUser) ==
    \/ a.date < b.date
    \/ byUser /\ a.date = b.date /\ a.user_id < b.user_id

ScheduleOrderings(rows, byUser) ==
    {s \in [1..Cardinality(rows) -> rows] :
        /\ \A i, j \in 1..Cardinality(rows) : s[i] = s[j] => i = j
        /\ \A i, j \in 1..Cardinality(rows) :
              i < j => ~ScheduledBefore(s[j], s[i], byUser)}

\* WHERE date >= $2 AND date <= $3, on the days of the two instants
ScheduledBetween(s, startDate, endDate) ==
    s.date >= Day(startDate) /\ s.date <= Day(endDate)

\* GetSchedulesByUser: COUNT(*) of the user's schedules in the range, then
\* the rows joined with their shifts ORDER BY date ASC LIMIT $4 OFFSET $5
GetSchedulesByUser(userID, startDate, endDate, page, limit) ==
    LET matching == {s \in schedules :
                        /\ s.user_id = userID
                        /\ s.shift_id \in shifts
                        /\ ScheduledBetween(s, startDate, endDate)}
    IN {[data |-> LimitOffset(s, limit, RepoOffset(page, limit)),
         total |-> Cardinality(matching)] :
           s \in ScheduleOrderings(matching, FALSE)}

\* GetSchedulesByDateRangeForAllUsers: the same for the schedules of all
\* users, joined with shifts and users, ORDER BY date ASC, username ASC
GetSchedulesByDateRangeForAllUsers(startDate, endDate, page, limit) ==
    LET matching == {s \in schedules :
                        /\ s.user_id \in users
                        /\ s.shift_id \in shifts
                        /\ ScheduledBetween(s, startDate, endDate)}
    IN {[data |-> LimitOffset(s, limit, RepoOffset(page, limit)),
         total |-> Cardinality(matching)] :
           s \in ScheduleOrderings(matching, TRUE)}

NoListing ==
    [op |-> "none", status |-> 0, userID |-> 0, start_date |-> "",
     end_date |-> "", data |-> <<>>,
     meta |-> BuildPaginationMeta(0, 0, 0)]

\* a list response that carries no rows
ListFailure(op, status, userID, startDateStr, endDateStr) ==
    [op |-> op, status |-> status, userID |-> userID,
     start_date |-> startDateStr, end_date |-> endDateStr, data |-> <<>>,
     meta |-> BuildPaginationMeta(0, 0, 0)]

\* the paginated response of a listing
ListSuccess(op, userID, startDateStr, endDateStr, result, query) ==
    [op |-> op, status |-> StatusOK, userID |-> userID,
     start_date |-> startDateStr, end_date |-> endDateStr,
     data |-> result.data,
     meta |-> BuildPaginationMeta(result.total, query.Limit, query.Page)]

Parsed(pageQuery, limitQuery) ==
    [parsed |-> TRUE, page |-> pageQuery, limit |-> limitQuery,
     query |-> ParsePaginationParams(pageQuery, limitQuery)]

\* GET /attendance/my of the user of the token
GetMyAttendance(userID, startDateStr, endDateStr, pageQuery, limitQuery) ==
    LET startOfMonth == StartOfMonth(clock)
        todayEnd == StartOfDay(Day(clock))
        startDate == parseDateQueryParam(startDateStr, startOfMonth)
        endDate == parseDateQueryParam(endDateStr, todayEnd)
        query == ParsePaginationParams(pageQuery, limitQuery)
    IN /\ IF endDate < startDate
             THEN /\ listing' = ListFailure("GetMyAttendance",
                                            StatusBadRequest, userID,
                                            startDateStr, endDateStr)
                  /\ UNCHANGED pagination
             ELSE /\ pagination' = Parsed(pageQuery, limitQuery)
                  /\ \E result \in GetAttendancesByUser(userID, startDate,
                                       endDate, query.Page, query.Limit) :
                        listing' = ListSuccess("GetMyAttendance", userID,
                                               startDateStr, endDateStr,
                                               result, query)
       /\ UNCHANGED <<store, clock, pc, req, response, directory, pipeline,
                      scan, meta>>

\* GET /admin/users/:userId/attendance
GetUserAttendance(targetUserId, startDateStr, endDateStr, pageQuery, limitQuery) ==
    LET dates == parseAdminDateQueryParams(startDateStr, endDateStr, clock)
        query == ParsePaginationParams(pageQuery, limitQuery)
    IN /\ IF dates.err
             THEN /\ listing' = ListFailure("GetUserAttendance",
                                            StatusBadRequest, targetUserId,
                                            startDateStr, endDateStr)
                  /\ UNCHANGED pagination
             ELSE IF targetUserId \notin users
             THEN /\ listing' = ListFailure("GetUserAttendance",
                                            StatusNotFound, targetUserId,
                                            startDateStr, endDateStr)
                  /\ UNCHANGED pagination
             ELSE /\ pagination' = Parsed(pageQuery, limitQuery)
                  /\ \E result \in GetAttendancesByUser(targetUserId,
                                       dates.startDate, dates.endDate,
                                       query.Page, query.Limit) :
                        listing' = ListSuccess("GetUserAttendance",
                                               targetUserId, startDateStr,
                                               endDateStr, result, query)
       /\ UNCHANGED <<store, clock, pc, req, response, directory, pipeline,
                      scan, meta>>

\* GET /admin/attendance/report
GetAttendanceReport(startDateStr, endDateStr, pageQuery, limitQuery) ==
    LET dates == parseAdminDateQueryParams(startDateStr, endDateStr, clock)
        query == ParsePaginationParams(pageQuery, limitQuery)
    IN /\ IF dates.err
             THEN /\ listing' = ListFailure("GetAttendanceReport",
                                            StatusBadRequest, 0,
                                            startDateStr, endDateStr)
                  /\ UNCHANGED pagination
             ELSE /\ pagination' = Parsed(pageQuery, limitQuery)
                  /\ \E result \in GetAllAttendances(dates.startDate,
                                       dates.endDate, query.Page,
                                       query.Limit) :
                        listing' = ListSuccess("GetAttendanceReport", 0,
                                               startDateStr, endDateStr,
                                               result, query)
       /\ UNCHANGED <<store, clock, pc, req, response, directory, pipeline,
                      scan, meta>>

\* ------------------------------------------------- the two list queries
\* Each list function of the repositories runs two statements on the pool,
\* outside any transaction: SELECT COUNT(*), then the SELECT with LIMIT and
\* OFFSET. A client reads a list by asking for its pages one after another.
ListQueries ==
    {"GetAttendancesByUser", "GetAllAttendances", "GetSchedulesByUser",
     "GetSchedulesByDateRangeForAllUsers"}

\* what the two statements of a list function give on the tables as they are
ListResults(op, userID, startDate, endDate, page, limit) ==
    CASE op = "GetAttendancesByUser" ->
            GetAttendancesByUser(userID, startDate, endDate, page, limit)
      [] op = "GetAllAttendances" ->
            GetAllAttendances(startDate, endDate, page, limit)
      [] op = "GetSchedulesByUser" ->
            GetSchedulesByUser(userID, startDate, endDate, page, limit)
      [] OTHER ->
            GetSchedulesByDateRangeForAllUsers(startDate, endDate, page,
                                               limit)

NoScan ==
    [op |-> "none", userID |-> 0, startDate |-> 0, endDate |-> 0,
     limit |-> 0, page |-> 0, first |-> 0, phase |-> "idle", total |-> 0,
     data |-> <<>>, rows |-> <<>>]

\* the next page of the list the client is reading
NextPageOf(op, userID, startDate, endDate, page, limit) ==
    /\ scan.op = op /\ scan.userID = userID /\ scan.limit = limit
    /\ scan.startDate = startDate /\ scan.endDate = endDate
    /\ page = scan.page + 1

\* statement 1: SELECT COUNT(*); "if totalCount == 0" returns at once with
\* no rows
QueryCount(op, userID, startDate, endDate, page, limit) ==
    /\ scan.phase # "counted"
    /\ \E r \in ListResults(op, userID, startDate, endDate, page, limit) :
          LET continues == NextPageOf(op, userID, startDate, endDate, page,
                                      limit)
          IN scan' = [op |-> op, userID |-> userID,
                      startDate |-> startDate, endDate |-> endDate,
                      limit |-> limit, page |-> page,
                      first |-> IF continues THEN scan.first ELSE page,
                      phase |-> IF r.total = 0 THEN "returned"
                                               ELSE "counted",
                      total |-> r.total, data |-> <<>>,
                      rows |-> IF continues THEN scan.rows ELSE <<>>]
    /\ UNCHANGED <<store, clock, pc, req, response, directory, pipeline,
                   pagination, listing, meta>>

\* statement 2: the SELECT ... ORDER BY ... LIMIT ... OFFSET on the tables
\* as they are by then
QueryData ==
    /\ scan.phase = "counted"
    /\ \E r \in ListResults(scan.op, scan.userID, scan.startDate,
                            scan.endDate, scan.page, scan.limit) :
          scan' = [scan EXCEPT !.phase = "returned", !.data = r.data,
                               !.rows = @ \o r.data]
    /\ UNCHANGED <<store, clock, pc, req, response, directory, pipeline,
                   pagination, listing, meta>>

\* ---------------------------------------------------------------- startup
\* var jwtSecret = []byte(os.Getenv("JWT_SECRET")): the initialisation of
\* package utils, which Go runs before main
PackageInit ==
    /\ boot = "start"
    /\ jwtSecret' = environ
    /\ boot' = "initialized"
    /\ UNCHANGED <<store, clock, pc, req, response, directory, issued, ctx,
                   trace, wall, environ, reports>>

\* configs.LoadConfig(), the first statement of main: the variables of the
\* .env file that the environment does not have yet are put into it
LoadConfig ==
    /\ boot = "initialized"
    /\ environ' = IF environ = Unset THEN JwtSecret ELSE environ
    /\ boot' = "serving"
    /\ UNCHANGED <<store, clock, pc, req, response, directory, issued, ctx,
                   trace, wall, jwtSecret, reports>>

\* ---------------------------------------------------------------- system
\* INSERT INTO roles (name) VALUES ('Admin'), ('Employee')
SeedRoleIds == {1, 2}
SeedRoles == {[id |-> 1, name |-> "Admin"], [id |-> 2, name |-> "Employee"]}

\* The schema after the migration, with one more role made by an
\* administrator; user 1 is an Admin, user 2 an Employee. The process was
\* started with JWT_SECRET in its environment and is serving requests.
Migrated ==
    /\ users = UserIds
    /\ shifts = ShiftIds
    /\ schedules = {}
    /\ nextScheduleId = 1
    /\ attendances = {}
    /\ nextAttendanceId = 1
    /\ checkOutWrites = <<>>
    /\ clock = 0
    /\ pc = [p \in Procs |-> "idle"]
    /\ req = [p \in Procs |-> NoReq]
    /\ response = NoResp
    /\ roles = SeedRoles \cup {[id |-> 3, name |-> "Manager"]}
    /\ nextRoleId = 4
    /\ userRole = [u \in UserIds |-> u]
    /\ profiles = [u \in UserIds |->
                      [username |-> Username(u), email |-> Email(u)]]
    /\ nextUserId = 3
    /\ issued = [u \in UserIds |-> NoIssued]
    /\ ctx = NewCtx(NoHeader)
    /\ trace = <<>>
    /\ wall = 0
    /\ pagination = NoPagination
    /\ listing = NoListing
    /\ scan = NoScan

Init ==
    /\ Migrated
    /\ environ = JwtSecret
    /\ jwtSecret = JwtSecret
    /\ boot = "serving"
    /\ meta = NoMeta

\* request bodies of the schedule endpoints: the well-formed ones, and one
\* for each way a body can be refused
ValidScheduleInputs ==
    {[user_id |-> 1, shift_id |-> 1, date |-> "0001-01-01"],
     [user_id |-> 1, shift_id |-> 2, date |-> "0001-01-01"],
     [user_id |-> 1, shift_id |-> 1, date |-> "0001-01-02"],
     [user_id |-> 2, shift_id |-> 1, date |-> "0001-01-01"]}

ScheduleInputs ==
    ValidScheduleInputs \cup
    {[user_id |-> 0, shift_id |-> 1, date |-> "0001-01-01"],
     [user_id |-> 1, shift_id |-> 0, date |-> "0001-01-01"],
     [user_id |-> 1, shift_id |-> 1, date |-> ""],
     [user_id |-> 1, shift_id |-> 1, date |-> "01/01/0001"],
     [user_id |-> 3, shift_id |-> 1, date |-> "0001-01-01"],
     [user_id |-> 1, shift_id |-> 3, date |-> "0001-01-01"]}

\* the attendance endpoints, for tokens of the users U and notes N; requests
\* start while the clock is before T
AttendanceStep(p, U, N, T) ==
    \/ \E u \in U, n \in N : clock < T /\ CheckInStart(p, u, n)
    \/ CheckInGetLast(p)
    \/ CheckInGetSchedule(p)
    \/ CheckInInsert(p)
    \/ \E u \in U, n \in N : clock < T /\ CheckOutStart(p, u, n)
    \/ CheckOutGetLast(p)
    \/ CheckOutUpdate(p)

\* the schedule endpoints, for the request bodies I
ScheduleStep(p, I) ==
    \/ \E input \in I : AdminCreateSchedule(p, input)
    \/ \E id \in ScheduleIdInputs, input \in I :
          AdminUpdateScheduleStart(p, id, input)
    \/ AdminUpdateScheduleExec(p)
    \/ \E id \in ScheduleIdInputs : AdminDeleteSchedule(p, id)

\* Requests of all endpoints, each completing before the next one starts.
OthersIdle(p) == \A q \in Procs \ {p} : pc[q] = "idle"

SeqNext ==
    \E p \in Procs :
       /\ OthersIdle(p)
       /\ UNCHANGED <<directory, pipeline, reports>>
       /\ \/ AttendanceStep(p, UserIds, {NoNotes}, MaxClock)
          \/ \E input \in ValidScheduleInputs :
                input.shift_id = 1 /\ AdminCreateSchedule(p, input)
          \/ \E id \in ScheduleIdInputs : AdminDeleteSchedule(p, id)

SeqSpec == Init /\ [][SeqNext]_vars

\* Concurrent check-in / check-out requests of one user.
AttendanceNext ==
    \E p \in Procs :
       /\ AttendanceStep(p, {1}, {NoNotes}, MaxConcurrentClock)
       /\ UNCHANGED <<directory, pipeline, reports>>

AttendanceSpec == Init /\ [][AttendanceNext]_vars

\* Concurrent schedule administration.
AdminProcs == {1, 2}

ScheduleNext ==
    \E p \in AdminProcs :
       /\ ScheduleStep(p, ScheduleInputs)
       /\ UNCHANGED <<directory, pipeline, reports>>

ScheduleSpec == Init /\ [][ScheduleNext]_vars

\* Requests of the API as routed, one after the other, by clients that
\* present no token, the token of their last login, or one they altered.
ApiProc == 1

\* logins and check-ins of this specification start while the clock is before
\* MaxApiClock
MaxApiClock == 1

ApiHeaders ==
    {NoHeader}
       \cup {Bearer(issued[u].token) : u \in UserIds}
       \cup {Bearer(AlterPayload(issued[2].token))}

ApiShiftIds == {1}

ApiScheduleInputs == {input \in ValidScheduleInputs : input.user_id = 2}

\* PUT /admin/users/:userId: the administrator becomes an Employee, the
\* employee a Manager; a body without role id, and one with an unknown role id
UserUpdates ==
    {[id |-> 1, role_id |-> 2], [id |-> 2, role_id |-> 3],
     [id |-> 2, role_id |-> 0], [id |-> 2, role_id |-> 4]}

\* admin.Delete("/users/:userId", adminHandler.DeleteUser)
DeleteUserRoute(header, targetUserId) ==
    Routed(ApiProc, AdminChain, header, "DeleteUser",
           AdminDeleteUser(ApiProc, RoutedUserID(AdminChain, header),
                           targetUserId))

\* the routes of the group /admin
AdminRoutes(header) ==
    \/ \E input \in ApiScheduleInputs :
          Routed(ApiProc, AdminChain, header, "CreateSchedule",
                 AdminCreateSchedule(ApiProc, input) /\ UNCHANGED directory)
    \/ \E id \in ScheduleIdInputs :
          Routed(ApiProc, AdminChain, header, "DeleteSchedule",
                 AdminDeleteSchedule(ApiProc, id) /\ UNCHANGED directory)
    \/ \E id \in ApiShiftIds :
          Routed(ApiProc, AdminChain, header, "DeleteShift",
                 AdminDeleteShift(ApiProc, id) /\ UNCHANGED directory)
    \/ \E targetUserId \in UserIds : DeleteUserRoute(header, targetUserId)
    \/ \E u \in UserUpdates :
          Routed(ApiProc, AdminChain, header, "UpdateUser",
                 AdminUpdateUser(ApiProc, u.id, u.role_id))

AdminHandlers ==
    {"CreateSchedule", "DeleteSchedule", "DeleteShift", "DeleteUser",
     "UpdateUser"}

\* the routes of the group /user
UserRoutes(header) ==
    /\ clock < MaxApiClock
    /\ Routed(ApiProc, UserChain, header, "CheckIn",
              CheckInStart(ApiProc, RoutedUserID(UserChain, header), NoNotes)
                 /\ UNCHANGED directory)

\* GET /shifts
PublicRoutes(header) ==
    Routed(ApiProc, ShiftsChain, header, "GetAllShifts",
           GetAllShifts(ApiProc) /\ UNCHANGED directory)

ApiNext ==
    \/ \E u \in UserIds, passwordOK \in BOOLEAN :
          /\ clock < MaxApiClock
          /\ Login(ApiProc, u, passwordOK, UnixTicks(clock))
    \/ \E header \in ApiHeaders : AdminRoutes(header)
    \/ \E header \in ApiHeaders : UserRoutes(header)
    \/ \E header \in ApiHeaders : PublicRoutes(header)
    \/ CheckInGetLast(ApiProc) /\ UNCHANGED <<directory, pipeline, reports>>
    \/ CheckInGetSchedule(ApiProc) /\ UNCHANGED <<directory, pipeline, reports>>
    \/ CheckInInsert(ApiProc) /\ UNCHANGED <<directory, pipeline, reports>>

ApiSpec == Init /\ [][ApiNext]_vars

\* The token service and the two middlewares on their own: tokens are issued
\* around instant 0, the clock jumps to the instants around their expiry, and
\* requests carry what a client can make of a token.
MaxChain == 2
MaxIssueTick == 3
ExpiryMargin == 3

IssueInstants == 0..MaxIssueTick

Instants ==
    IssueInstants \cup
    ((TokenLifetime - ExpiryMargin)..(TokenLifetime + MaxIssueTick + 1))

MwHeaders ==
    {NoHeader} \cup
    UNION {{Bearer(issued[u].token), ExtraSpace(issued[u].token),
            Bearer(AlterPayload(issued[u].token)),
            Bearer(AlterSignature(issued[u].token)),
            Bearer(AlgNone(issued[u].token))} :
           u \in {v \in UserIds : issued[v] # NoIssued}}

AllowedRoleSets ==
    {<<"Admin">>, <<"Employee", "Admin">>, <<"ADMIN">>, <<"employee">>,
     <<"Manager">>, <<>>}

MwLogin(userID) ==
    /\ wall \in IssueInstants
    /\ Login(ApiProc, userID, TRUE, wall)

AdvanceTo(t) ==
    /\ t > wall
    /\ wall' = t
    /\ UNCHANGED <<store, clock, pc, req, response, directory, issued, ctx,
                   trace, startup, reports>>

NewRequest(header) ==
    /\ ctx' = NewCtx(header)
    /\ trace' = <<>>
    /\ UNCHANGED <<store, clock, pc, req, response, directory, issued, wall,
                   startup, reports>>

\* the chain of the request has not stopped, and may hold one more handler
Running ==
    /\ IF trace = <<>> THEN TRUE ELSE trace[Len(trace)] = "next"
    /\ Len(trace) < 2 * MaxChain

Called(mw, r) ==
    /\ ctx' = r.c
    /\ trace' = IF r.next THEN trace \o <<mw, "next">> ELSE Append(trace, mw)
    /\ Respond(ApiProc, [NoResp EXCEPT !.op = "middleware",
                            !.status = r.status,
                            !.msg = r.msg])
    /\ UNCHANGED <<store, clock, pc, req, directory, issued, wall, startup,
                   reports>>

CallProtected == Running /\ Called("Protected", Protected(ctx, wall))

CallAuthorize(allowedRoles) ==
    Running /\ Called("Authorize", Authorize(allowedRoles, ctx))

MiddlewareNext ==
    \/ \E u \in UserIds : MwLogin(u)
    \/ \E t \in Instants : AdvanceTo(t)
    \/ \E header \in MwHeaders : NewRequest(header)
    \/ CallProtected
    \/ \E allowedRoles \in AllowedRoleSets : CallAuthorize(allowedRoles)

MiddlewareSpec == Init /\ [][MiddlewareNext]_vars

\* The start of the process, with JWT_SECRET in the environment of the
\* process or only in the .env file, and then logins and token checks.
StartupInit ==
    /\ Migrated
    /\ environ \in {Unset, JwtSecret}
    /\ jwtSecret = Unset
    /\ boot = "start"
    /\ meta = NoMeta

StartupNext ==
    \/ PackageInit
    \/ LoadConfig
    \/ boot = "serving" /\ \E u \in UserIds : MwLogin(u)
    \/ boot = "serving" /\ \E t \in IssueInstants : AdvanceTo(t)
    \/ boot = "serving" /\ \E header \in MwHeaders : NewRequest(header)
    \/ boot = "serving" /\ CallProtected

StartupSpec == StartupInit /\ [][StartupNext]_vars

\* Tokens of every signing algorithm, made of the claims of issued tokens
\* and presented to Protected.
TokenAlgs == {"HS256", "HS384", "HS512", "RS256", "ES256", "PS256", "none"}

AlgHeaders ==
    {Bearer(Resign(issued[u].token, alg)) :
        u \in {v \in UserIds : issued[v] # NoIssued}, alg \in TokenAlgs}

AlgNext ==
    \/ \E u \in UserIds : MwLogin(u)
    \/ \E header \in AlgHeaders : NewRequest(header)
    \/ CallProtected

AlgSpec == Init /\ [][AlgNext]_vars

\* The administration of roles, and of the roles of the users.
MaxRoles == 4

RoleNameInputs == {"", "HR", "Admin", "Boss"}

RoleIdInputs == 1..MaxRoles

RoleNext ==
    \/ \E name \in RoleNameInputs :
          /\ nextRoleId <= MaxRoles
          /\ AdminCreateRole(ApiProc, name)
          /\ UNCHANGED <<pipeline, reports>>
    \/ \E id \in RoleIdInputs, name \in RoleNameInputs :
          AdminUpdateRole(ApiProc, id, name) /\ UNCHANGED <<pipeline, reports>>
    \/ \E id \in RoleIdInputs :
          AdminDeleteRole(ApiProc, id) /\ UNCHANGED <<pipeline, reports>>
    \/ \E u \in UserIds, id \in RoleIdInputs :
          AdminUpdateUser(ApiProc, u, id) /\ UNCHANGED <<pipeline, reports>>
    \/ \E u \in UserIds :
          AdminDeleteUser(ApiProc, 1, u) /\ UNCHANGED <<pipeline, reports>>

RoleSpec == Init /\ [][RoleNext]_vars

\* Concurrent check-in / check-out requests of one user, with and without
\* notes in their bodies.
NotesNext ==
    \E p \in Procs :
       /\ AttendanceStep(p, {1}, NotesInputs, MaxConcurrentClock)
       /\ UNCHANGED <<directory, pipeline, reports>>

NotesSpec == Init /\ [][NotesNext]_vars

\* Concurrent check-in / check-out requests of one user against a datastore
\* whose statements may fail.
FaultNext ==
    \E p \in Procs :
       /\ UNCHANGED <<directory, pipeline, reports>>
       /\ \/ AttendanceStep(p, {1}, {NoNotes}, MaxConcurrentClock)
          \/ CheckInGetScheduleFails(p)
          \/ StatementFails(p)

FaultSpec == Init /\ [][FaultNext]_vars

\* Registration, the two profile updates and the deletion of users, each
\* one statement against the users table.
MaxUsers == 3

UsernameInputs == {"alice", "bob", "al"}

EmailInputs == {"alice@x.io", "bob@x.io", "nope"}

ProfileInputs ==
    {[username |-> n, email |-> e] : n \in UsernameInputs, e \in EmailInputs}
    \cup {[username |-> "carol", email |-> "carol@x.io"]}

AdminUpdateInputs ==
    {[username |-> i.username, email |-> i.email, role_id |-> 1] :
        i \in ProfileInputs}
    \cup {[username |-> "carol", email |-> "carol@x.io", role_id |-> r] :
           r \in {0, 9}}

RegisterInputs ==
    {[username |-> i.username, email |-> i.email, role_id |-> 2,
      password |-> "secret"] : i \in ProfileInputs}
    \cup {[username |-> "carol", email |-> "carol@x.io", role_id |-> r,
           password |-> w] : r \in {0, 2, 9}, w \in {"secret", "short"}}

AccountNext ==
    \/ /\ nextUserId <= MaxUsers
       /\ \E input \in RegisterInputs : Register(ApiProc, input)
       /\ UNCHANGED <<pipeline, reports>>
    \/ \E u \in 1..MaxUsers, input \in AdminUpdateInputs :
          UpdateUser(ApiProc, u, input) /\ UNCHANGED <<pipeline, reports>>
    \/ \E u \in 1..MaxUsers, input \in ProfileInputs :
          /\ u \in DOMAIN profiles
          /\ UpdateMyProfile(ApiProc, u, input)
          /\ UNCHANGED <<pipeline, reports>>
    \/ \E u \in 1..MaxUsers :
          AdminDeleteUser(ApiProc, 1, u) /\ UNCHANGED <<pipeline, reports>>

AccountSpec == Init /\ [][AccountNext]_vars

\* Requests that create rows running concurrently with requests that delete
\* the rows they refer to: check-ins and schedules of user 2 against the
\* deletion of user 2 and of shifts, role changes of user 2 against the
\* deletion of roles.
IntegrityScheduleInputs ==
    {[user_id |-> 2, shift_id |-> 1, date |-> "0001-01-01"],
     [user_id |-> 2, shift_id |-> 2, date |-> "0001-01-01"]}

IntegrityNext ==
    \E p \in Procs :
       \/ /\ \/ clock < MaxConcurrentClock /\ CheckInStart(p, 2, NoNotes)
             \/ CheckInGetLast(p)
             \/ CheckInGetSchedule(p)
             \/ CheckInInsert(p)
          /\ UNCHANGED <<directory, pipeline, reports>>
       \/ /\ \E input \in IntegrityScheduleInputs :
                \/ AdminCreateSchedule(p, input)
                \/ AdminUpdateScheduleStart(p, 1, input)
          /\ UNCHANGED <<directory, pipeline, reports>>
       \/ /\ AdminUpdateScheduleExec(p)
          /\ UNCHANGED <<directory, pipeline, reports>>
       \/ /\ \E id \in ShiftIds : AdminDeleteShift(p, id)
          /\ UNCHANGED <<directory, pipeline, reports>>
       \/ /\ AdminDeleteUser(p, 1, 2)
          /\ UNCHANGED <<pipeline, reports>>
       \/ /\ \E roleID \in {2, 3} : AdminUpdateUser(p, 2, roleID)
          /\ UNCHANGED <<pipeline, reports>>
       \/ /\ AdminDeleteRole(p, 3)
          /\ UNCHANGED <<pipeline, reports>>

IntegritySpec == Init /\ [][IntegrityNext]_vars

\* ParsePaginationParams on its own, for the page and limit values that sit
\* at the edges of the tests of the parser and of the range of int.
PageQueries ==
    {Missing, NotNumeric} \cup
    {Numeral(v) : v \in {-1, 0, 1, 2, 3, (MaxInt \div MaxLimit) + 1,
                         (MaxInt \div MaxLimit) + 2, MaxInt - 1, MaxInt,
                         MaxInt + 1}}

LimitQueries ==
    {Missing, NotNumeric} \cup
    {Numeral(v) : v \in {-1, 0, 1, 2, DefaultLimit, MaxLimit - 1, MaxLimit,
                         MaxLimit + 1, MaxInt, MaxInt + 1}}

ParseRequest(pageQuery, limitQuery) ==
    /\ pagination' = Parsed(pageQuery, limitQuery)
    /\ UNCHANGED <<store, clock, pc, req, response, directory, pipeline,
                   listing, scan, meta>>

PaginationNext ==
    \E pageQuery \in PageQueries, limitQuery \in LimitQueries :
       ParseRequest(pageQuery, limitQuery)

PaginationSpec == Init /\ [][PaginationNext]_vars

\* The attendance listings over the records that check-ins and check-outs
\* made. A listing reads the tables and writes none, so each behaviour ends
\* with one listing request over the records made before it.
MaxListClock == 4

\* start_date and end_date: both missing, one day, two days, and an end
\* before the start
DateRanges ==
    {<<"", "">>, <<"0001-01-01", "0001-01-01">>,
     <<"0001-01-01", "0001-01-02">>, <<"0001-01-02", "0001-01-02">>,
     <<"0001-01-02", "0001-01-01">>}

\* pages of the data, and pages whose offset is beyond the range of int
ListPages ==
    {Numeral(v) : v \in {1, 2, 3, (2^(IntBits - 1) \div 3) + 2,
                         (2^IntBits \div 3) + 2}}

ListLimits == {Numeral(v) : v \in {1, 2, 3}}

ListingNext ==
    \/ /\ listing = NoListing
       /\ AttendanceStep(ApiProc, UserIds, {NoNotes}, MaxListClock)
       /\ UNCHANGED <<directory, pipeline, reports>>
    \/ /\ pc[ApiProc] = "idle" /\ listing = NoListing
       /\ \E u \in UserIds, dates \in DateRanges, pageQuery \in ListPages,
             limitQuery \in ListLimits :
             GetMyAttendance(u, dates[1], dates[2], pageQuery, limitQuery)
    \/ /\ pc[ApiProc] = "idle" /\ listing = NoListing
       /\ \E u \in UserIds \cup {3}, dates \in DateRanges,
             pageQuery \in ListPages, limitQuery \in ListLimits :
             GetUserAttendance(u, dates[1], dates[2], pageQuery,
                               limitQuery)
    \/ /\ pc[ApiProc] = "idle" /\ listing = NoListing
       /\ \E dates \in DateRanges, pageQuery \in ListPages,
             limitQuery \in ListLimits :
             GetAttendanceReport(dates[1], dates[2], pageQuery, limitQuery)

ListingSpec == Init /\ [][ListingNext]_vars

\* =================================================================== claims
\* open attendance records of a user (check_out_at IS NULL)
OpenRecordsIn(rows, u) ==
    {a \in rows : a.user_id = u /\ a.check_out_at = NULL}

OpenRecords(u) == OpenRecordsIn(attendances, u)

AttendanceIds == {a.id : a \in attendances}

\* request p takes the step that leaves statement `at`
Leaves(p, at) == pc[p] = at /\ pc'[p] # at

\* C1: when every request completes before the next one starts, every user
\* has at most one attendance record whose check_out_at is null.
C1_AtMostOneOpenRecord ==
    \A u \in UserIds : Cardinality(OpenRecords(u)) <= 1

\* a user who checked in, checked out and checked in again
C1_Witness ==
    \E a, b \in attendances :
       /\ a.user_id = b.user_id
       /\ a.check_out_at # NULL
       /\ b.check_out_at = NULL
       /\ \A q \in Procs : pc[q] = "idle"

\* C2 (as claimed): after concurrent check-ins of one user have completed,
\* the user has at most one open record.
C2_ConcurrentCheckInsLeaveOneOpen ==
    (\A q \in Procs : pc[q] = "idle")
       => \A u \in UserIds : Cardinality(OpenRecords(u)) <= 1

\* C3 (as claimed): a check-in that passed the open-record test and found no
\* schedule for today is answered 403 Forbidden.
C3_NoScheduleTodayIsForbidden ==
    (/\ response.op = "checkin"
     /\ response.status # StatusConflict
     /\ ~response.schedFound)
       => response.status = StatusForbidden

\* C4: a check-in by a user whose most recent record is open is answered
\* 409 Conflict, ends the request and inserts no attendance record.
C4_CheckInWhileOpenConflicts ==
    [][\A p \in Procs :
          (/\ Leaves(p, "ci_last")
           /\ GetLastAttendance(req[p].userID) # {}
           /\ \A a \in GetLastAttendance(req[p].userID) : a.check_out_at = NULL)
             => /\ response'.op = "checkin"
                /\ response'.status = StatusConflict
                /\ response'.userID = req[p].userID
                /\ pc'[p] = "idle"
                /\ attendances' = attendances
                /\ nextAttendanceId' = nextAttendanceId]_vars

\* a refused check-in of a user whose open record is still there
C4_Witness ==
    /\ response.op = "checkin"
    /\ response.status = StatusConflict
    /\ \E a \in OpenRecords(response.userID) : a.id = response.id

\* C5: of the check-outs that go for the same open record, the one whose
\* UPDATE finds it open writes check_out_at and reports success; every other
\* one writes nothing and does not report success; once any of them is done
\* the record has been written exactly once.
C5_OneCheckOutWins ==
    [][\A p \in Procs :
          Leaves(p, "co_update")
             => /\ response'.op = "checkout"
                /\ response'.id = req[p].lastAttID
                /\ checkOutWrites'[req[p].lastAttID] = 1
                /\ (response'.status = StatusOK)
                      <=> (checkOutWrites[req[p].lastAttID] = 0)
                /\ checkOutWrites[req[p].lastAttID] = 1
                      => attendances' = attendances]_vars

\* a check-out that read the record open and lost the race for the UPDATE
C5_Witness ==
    /\ response.op = "checkout"
    /\ response.msg = "attendance record not found or already checked out"
    /\ checkOutWrites[response.id] = 1
    /\ \E a \in attendances : a.id = response.id /\ a.check_out_at # NULL

\* C6 (as claimed): the check-out whose UPDATE affected zero rows is answered
\* 409 Conflict, like a second check-out made after the first one.
C6_LostRaceIsConflict ==
    (/\ response.op = "checkout"
     /\ response.msg = "attendance record not found or already checked out")
       => response.status = StatusConflict

\* C7: a check-out by a user without any record is answered 404, one by a
\* user whose most recent record is closed is answered 409; either ends the
\* request and modifies no attendance record.
C7_CheckOutWithoutOpenSession ==
    [][\A p \in Procs :
          Leaves(p, "co_last")
             => LET last == GetLastAttendance(req[p].userID) IN
                /\ last = {}
                     => /\ response'.op = "checkout"
                        /\ response'.status = StatusNotFound
                        /\ response'.msg = "No active check-in found to check out from"
                        /\ pc'[p] = "idle"
                        /\ attendances' = attendances
                /\ (last # {} /\ \A a \in last : a.check_out_at # NULL)
                     => /\ response'.op = "checkout"
                        /\ response'.status = StatusConflict
                        /\ pc'[p] = "idle"
                        /\ attendances' = attendances]_vars

\* a second check-out, refused, of a user whose record is closed
C7_Witness ==
    /\ response.op = "checkout"
    /\ response.status = StatusConflict
    /\ \E a \in attendances :
          /\ a.id = response.id
          /\ a.user_id = response.userID
          /\ a.check_out_at # NULL
    /\ OpenRecords(response.userID) = {}

\* C8: the lifecycle Idle -> CheckedIn -> Idle of a user, with requests one
\* after the other. From Idle a check-in goes on to the schedule lookup, with
\* a schedule for today to the insert, and the insert answers 200 with the id
\* of a new open record, all other records unchanged; from CheckedIn a
\* check-in is answered 409; from CheckedIn a check-out closes the open
\* record and answers 200, all other records unchanged; from Idle with a
\* closed record a check-out is answered 409.
C8_Lifecycle ==
    [][\A p \in Procs :
          LET u == req[p].userID IN
          /\ Leaves(p, "ci_last")
               => IF OpenRecords(u) # {}
                     THEN /\ response'.status = StatusConflict
                          /\ attendances' = attendances
                     ELSE pc'[p] = "ci_sched"
          /\ (Leaves(p, "ci_sched") /\ ScheduleRows(u, Day(req[p].now)) # {})
               => pc'[p] = "ci_insert"
          /\ Leaves(p, "ci_insert")
               => /\ response'.op = "checkin"
                  /\ response'.status = StatusOK
                  /\ response'.id \notin AttendanceIds
                  /\ attendances \subseteq attendances'
                  /\ OpenRecordsIn(attendances', u) = attendances' \ attendances
                  /\ \E a \in OpenRecordsIn(attendances', u) : a.id = response'.id
                  /\ Cardinality(OpenRecordsIn(attendances', u)) = 1
          /\ Leaves(p, "co_last")
               => IF OpenRecords(u) # {}
                     THEN /\ pc'[p] = "co_update"
                          /\ \E a \in OpenRecords(u) : a.id = req'[p].lastAttID
                     ELSE /\ pc'[p] = "idle"
                          /\ attendances' = attendances
                          /\ response'.status =
                                IF \E a \in attendances : a.user_id = u
                                   THEN StatusConflict ELSE StatusNotFound
          /\ Leaves(p, "co_update")
               => /\ response'.op = "checkout"
                  /\ response'.status = StatusOK
                  /\ OpenRecordsIn(attendances', u) = {}
                  /\ \E a \in OpenRecords(u) :
                        /\ a.id = response'.id
                        /\ attendances \ {a} = attendances' \ {b \in attendances' : b.id = a.id}
                        /\ \E b \in attendances' :
                              /\ b.id = a.id
                              /\ b.user_id = a.user_id
                              /\ b.check_in_at = a.check_in_at
                              /\ b.check_out_at = req[p].now]_vars

\* a user with a schedule for today, checked in again after a check-out
C8_Witness ==
    /\ response.op = "checkin"
    /\ response.status = StatusOK
    /\ response.schedFound
    /\ \E a, b \in attendances :
          /\ a.user_id = response.userID
          /\ b.user_id = response.userID
          /\ a.check_out_at # NULL
          /\ b.check_out_at = NULL
          /\ b.id = response.id
          /\ a.check_in_at < b.check_in_at

\* the pair (user_id, date) a request body names is that of a row
PairExists(rows, input) ==
    \E s \in rows : s.user_id = input.user_id /\ s.date = ParseDate(input.date)

UniqueSchedules ==
    \A s1, s2 \in schedules :
       (s1.user_id = s2.user_id /\ s1.date = s2.date) => s1 = s2

\* C9: there is at most one schedule per (user_id, date), also with create
\* and update requests in flight together; a CreateSchedule for a pair that
\* exists is answered 409 Conflict and leaves the schedules unchanged; one
\* for a pair that does not exist (another date, another user) is answered
\* 201 and adds exactly the row asked for.
C9_OneSchedulePerUserAndDate ==
    [][/\ UniqueSchedules'
       /\ \A p \in AdminProcs, input \in ValidScheduleInputs :
             AdminCreateSchedule(p, input)
                => IF PairExists(schedules, input)
                      THEN /\ response'.status = StatusConflict
                           /\ schedules' = schedules
                      ELSE /\ response'.status = StatusCreated
                           /\ schedules' = schedules \cup
                                 {[id |-> response'.id,
                                   user_id |-> input.user_id,
                                   shift_id |-> input.shift_id,
                                   date |-> ParseDate(input.date)]}
                           /\ response'.id \notin {s.id : s \in schedules}]_vars

\* a refused duplicate create, two schedules in place, an update in flight
C9_Witness ==
    /\ response.op = "createSchedule"
    /\ response.status = StatusConflict
    /\ Cardinality(schedules) = 2
    /\ \E p \in AdminProcs : pc[p] = "us_exec"

\* C10: UpdateSchedule of an existing row to a well-formed date is checked
\* against the other rows only: if another row has the (user_id, date) asked
\* for, it is answered 409 Conflict and no row changes; otherwise (the row's
\* own pair included) it is answered 200 and the row takes the new values.
C10_UpdateExcludesItself ==
    [][\A p \in AdminProcs :
          Leaves(p, "us_exec")
             => LET id == req[p].scheduleID
                    input == req[p].input
                    target == {s \in schedules : s.id = id}
                IN (target # {} /\ ParseDate(input.date) # ParseError)
                     => IF PairExists(schedules \ target, input)
                           THEN /\ response'.op = "updateSchedule"
                                /\ response'.status = StatusConflict
                                /\ schedules' = schedules
                           ELSE /\ response'.op = "updateSchedule"
                                /\ response'.status = StatusOK
                                /\ schedules' = (schedules \ target) \cup
                                      {[id |-> id,
                                        user_id |-> input.user_id,
                                        shift_id |-> input.shift_id,
                                        date |-> ParseDate(input.date)]}]_vars

\* an update refused because another row has the pair; both rows in place
C10_Witness ==
    /\ response.op = "updateSchedule"
    /\ response.status = StatusConflict
    /\ Cardinality(schedules) = 2
    /\ \E s \in schedules : s.id = response.id

\* request bodies that are well formed and name a user or a shift that is
\* not in the directory
DanglingInputs ==
    {input \in ScheduleInputs :
        /\ ValidateStruct(input)
        /\ ParseDate(input.date) # ParseError
        /\ (input.user_id \notin users \/ input.shift_id \notin shifts)}

\* C11 (as claimed): a CreateSchedule that names a user or shift that does
\* not exist is answered 400 Bad Request and creates no schedule.
C11_DanglingReferenceIsBadRequest ==
    [][\A p \in AdminProcs, input \in DanglingInputs :
          AdminCreateSchedule(p, input)
             => /\ response'.status = StatusBadRequest
                /\ schedules' = schedules]_vars

\* C11 (amended): a CreateSchedule that names a user or shift that does not
\* exist creates no schedule; it is answered 400 Bad Request, except that it
\* is answered 409 Conflict when the user already has a schedule on the date.
C11_DanglingReferenceCreatesNothing ==
    [][\A p \in AdminProcs, input \in DanglingInputs :
          AdminCreateSchedule(p, input)
             => /\ schedules' = schedules
                /\ nextScheduleId' = nextScheduleId
                /\ response'.op = "createSchedule"
                /\ response'.status =
                      IF PairExists(schedules, input)
                         THEN StatusConflict ELSE StatusBadRequest]_vars

\* a create refused for its reference, with a schedule already in place
C11_Witness ==
    /\ response.op = "createSchedule"
    /\ response.status = StatusBadRequest
    /\ response.msg = "invalid user_id or shift_id"
    /\ schedules # {}

\* C12: DeleteShift on a shift that a schedule references answers 409 and
\* leaves the shift and the schedules as they are; on a shift that no
\* schedule references (any more) it answers 200 and removes the shift.
C12_ShiftDeleteBlockedWhileReferenced ==
    [][\A id \in ApiShiftIds :
          (AdminDeleteShift(ApiProc, id) /\ id \in shifts) =>
             IF \E s \in schedules : s.shift_id = id
                THEN /\ response'.status = StatusConflict
                     /\ shifts' = shifts
                     /\ schedules' = schedules
                ELSE /\ response'.status = StatusOK
                     /\ shifts' = shifts \ {id}]_vars

\* the shift is gone after a schedule had referenced it and was deleted
C12_Witness ==
    /\ response.op = "deleteShift"
    /\ response.status = StatusOK
    /\ response.id \notin shifts
    /\ nextScheduleId > 1
    /\ 2 \in users

\* C13: no request removes an attendance record: every record of a state is
\* still there, under its id, after every step.
C13_AttendanceNeverRemoved ==
    [][\A a \in attendances : \E b \in attendances' : b.id = a.id]_vars

\* C14: a call of Authorize(allowedRoles) goes on to the next handler exactly
\* when the context holds validated claims whose role equals one of
\* allowedRoles ignoring case; otherwise, and always when the context holds
\* no claims, it answers 403 and the next handler is not called.
C14_AuthorizeGate ==
    [][\A allowedRoles \in AllowedRoleSets :
          CallAuthorize(allowedRoles) =>
             LET proceeds == trace' = trace \o <<"Authorize", "next">>
                 present == ctx.locals # NoClaims
                 member == \E i \in 1..Len(allowedRoles) :
                              Fold(ctx.locals.role) = Fold(allowedRoles[i])
             IN /\ proceeds <=> (present /\ member)
                /\ ~present => ~proceeds
                /\ ~proceeds => /\ response'.status = StatusForbidden
                                /\ trace' = Append(trace, "Authorize")]_vars

\* an Employee's request has passed Protected and then Authorize
C14_Witness ==
    /\ trace = <<"Protected", "next", "Authorize", "next">>
    /\ ctx.locals.role = "Employee"
    /\ ctx.locals.user_id = 2

\* C15: a request on a route of /admin is refused with 401 by Protected when
\* it carries no valid token and with 403 by Authorize("Admin") when its
\* valid token names another role, and neither changes the store; its handler
\* runs only after Protected and then Authorize, in that order, and no step
\* changes users, roles of users, shifts or schedules in any other way.
C15_AdminBehindProtectedThenAuthorize ==
    [][/\ \A header \in ApiHeaders :
             AdminRoutes(header) =>
                LET tokenString == ExtractToken(header)
                    v == ValidateJWT(tokenString, UnixTicks(clock))
                IN IF tokenString = EmptyToken \/ v.err # "nil"
                      THEN /\ response'.status = StatusUnauthorized
                           /\ trace' = <<"Protected">>
                           /\ UNCHANGED <<store, directory>>
                   ELSE IF Fold(v.claims.role) # "admin"
                      THEN /\ response'.status = StatusForbidden
                           /\ trace' = <<"Protected", "Authorize">>
                           /\ UNCHANGED <<store, directory>>
                   ELSE /\ Len(trace') = 3
                        /\ SubSeq(trace', 1, 2) = <<"Protected", "Authorize">>
                        /\ trace'[3] \in AdminHandlers
       /\ (users' # users \/ userRole' # userRole \/ shifts' # shifts
              \/ schedules' # schedules) =>
             /\ Len(trace') = 3
             /\ SubSeq(trace', 1, 2) = <<"Protected", "Authorize">>
             /\ trace'[3] \in AdminHandlers
             /\ Fold(ctx'.locals.role) = "admin"]_vars

\* an administrator's request has created a schedule behind both middlewares
C15_Witness ==
    /\ trace = <<"Protected", "Authorize", "CreateSchedule">>
    /\ response.op = "createSchedule"
    /\ response.status = StatusCreated
    /\ schedules # {}

\* C16: the handler of a route of /user runs only for a token whose role is
\* Employee or Admin (ignoring case); a token of any other role is answered
\* 403 before the handler.
C16_UserRoutesForEmployeeOrAdmin ==
    IF trace # <<>> /\ trace[Len(trace)] = "CheckIn"
       THEN Fold(ctx.locals.role) \in {"employee", "admin"}
       ELSE TRUE

\* C17: GET /shifts answers with the shifts only to a request with a valid
\* bearer token; without one the answer is 401.
C17_ShiftsNeedAuthentication ==
    response.op = "getAllShifts" /\ response.status = StatusOK =>
       /\ ExtractToken(ctx.header) # EmptyToken
       /\ ValidateJWT(ExtractToken(ctx.header), UnixTicks(clock)).err = "nil"

\* C18: a step of CreateSchedule or DeleteSchedule that changes the schedules
\* is made for a caller whose role in the directory is Admin at that time.
C18_SchedulesOnlyByDirectoryAdmins ==
    [][IF trace' # <<>> /\ schedules' # schedules
          THEN trace'[Len(trace')] \in {"CreateSchedule", "DeleteSchedule"} =>
                  RoleName(userRole[ctx'.locals.user_id]) = "Admin"
          ELSE TRUE]_vars

\* what ValidateJWT made of the request: accepted with the identity of u, or
\* refused with 401
AcceptedAs(u) ==
    /\ trace' = trace \o <<"Protected", "next">>
    /\ ctx'.locals.user_id = u
    /\ ctx'.locals.username = Username(u)
    /\ ctx'.locals.role = RoleName(userRole[u])

Rejected ==
    /\ trace' = Append(trace, "Protected")
    /\ response'.status = StatusUnauthorized
    /\ ctx' = ctx

IssuedTo == {u \in UserIds : issued[u] # NoIssued}

Alterations(tokenString) ==
    {AlterPayload(tokenString), AlterSignature(tokenString),
     AlgNone(tokenString)}

C20_NoSelfDelete ==
    [][/\ \A header \in ApiHeaders, targetUserId \in UserIds :
             LET v == ValidateJWT(ExtractToken(header), UnixTicks(clock))
             IN (/\ DeleteUserRoute(header, targetUserId)
                 /\ v.err = "nil"
                 /\ v.claims.user_id = targetUserId) =>
                   /\ response'.status = StatusForbidden
                   /\ UNCHANGED <<store, directory>>
       /\ \A u \in users \ users' : ctx'.locals.user_id # u]_vars

\* the administrator, having deleted the other user, was refused their own
\* deletion
C20_Witness ==
    /\ response.op = "deleteUser"
    /\ response.status = StatusForbidden
    /\ response.id = 1
    /\ response.userID = 1
    /\ users = {1}

\* C21: DeleteRole on role 1 or role 2 (the seed roles) is answered 403 and
\* leaves the roles as they are, whether or not a user has the role, and no
\* step removes the row of a seed role; DeleteRole on another role that a
\* user still has is answered 409 and leaves the roles as they are.
C21_SeedRolesNotDeleted ==
    [][/\ \A id \in SeedRoleIds :
             AdminDeleteRole(ApiProc, id) =>
                response'.status = StatusForbidden /\ roles' = roles
       /\ \A r \in roles :
             r.id \in SeedRoleIds => \E r2 \in roles' : r2.id = r.id
       /\ \A id \in RoleIdInputs \ SeedRoleIds :
             (/\ AdminDeleteRole(ApiProc, id)
              /\ \E r \in roles : r.id = id
              /\ \E u \in users : userRole[u] = id) =>
                response'.status = StatusConflict /\ roles' = roles]_vars

\* the deletion of the seed role Employee, which no user has, was refused
C21_Witness ==
    /\ response.op = "deleteRole"
    /\ response.status = StatusForbidden
    /\ response.id = 2
    /\ \A u \in users : userRole[u] # 2
    /\ \E r \in roles : r.id = 2

\* C22: in every reachable state the seed roles carry the names "Admin" and
\* "Employee".
C22_SeedRolesKeepNames == SeedRoles \subseteq roles

\* C23: for every page and limit query value, the parsed Page is at least 1,
\* the Limit is from 1 to 100, and the Offset is the non-negative integer
\* (Page - 1) * Limit; missing or invalid values become page 1 and limit 10,
\* and a limit above 100 becomes 100.
C23_PaginationInRange ==
    pagination.parsed =>
       LET q == pagination.query
           badPage == pagination.page.kind # "int" \/ pagination.page.val < 1
                         \/ pagination.page.val > MaxInt
           badLimit == pagination.limit.kind # "int"
                          \/ pagination.limit.val < 1
                          \/ pagination.limit.val > MaxInt
       IN /\ q.Page >= 1
          /\ q.Limit >= 1 /\ q.Limit <= 100
          /\ q.Offset = (q.Page - 1) * q.Limit
          /\ q.Offset >= 0
          /\ badPage => q.Page = 1
          /\ ~badPage => q.Page = pagination.page.val
          /\ badLimit => q.Limit = 10
          /\ (~badLimit /\ pagination.limit.val > 100) => q.Limit = 100
          /\ (~badLimit /\ pagination.limit.val <= 100) =>
                q.Limit = pagination.limit.val

\* C24: a listing over N matching rows with limit L returns, on page
\* ceil(N / L), exactly the N - (ceil(N / L) - 1) * L rows that remain, and
\* on every accepted page beyond it the empty sequence, with total_items N.
C24_LastPageAndBeyond ==
    listing.status = StatusOK =>
       LET N == listing.meta.TotalItems
           L == listing.meta.PerPage
           page == listing.meta.CurrentPage
           last == (N + L - 1) \div L
       IN /\ (N > 0 /\ page = last) => Len(listing.data) = N - (last - 1) * L
          /\ page > last => listing.data = <<>>

\* the rows a listing with start_date and end_date has to count: those of
\* its user (all users for the report) whose check-in falls on a day from
\* start_date to end_date
OnDaysOf(l) ==
    {a \in attendances :
        /\ l.op # "GetAttendanceReport" => a.user_id = l.userID
        /\ Day(a.check_in_at) >= ParseDate(l.start_date)
        /\ Day(a.check_in_at) <= ParseDate(l.end_date)}

\* C25: every attendance listing given start_date and end_date counts
\* exactly the records whose check-in falls on a calendar day from
\* start_date through end_date, both days included.
C25_BothDaysIncluded ==
    (listing.status = StatusOK /\ listing.start_date # ""
        /\ listing.end_date # "") =>
       listing.meta.TotalItems = Cardinality(OnDaysOf(listing))

\* C26: a successful check-out leaves the notes of its record as they were
\* when the request carries none and replaces them when it carries some; it
\* sets check_out_at of that one record and changes nothing else of it, no
\* other record and no other table.
C26_CheckOutNotes ==
    [][\A p \in Procs :
          (CheckOutUpdate(p) /\ response'.status = StatusOK) =>
             \E a \in attendances :
                /\ a.id = req[p].lastAttID
                /\ attendances' =
                      (attendances \ {a}) \cup
                      {[a EXCEPT !.check_out_at = req[p].now,
                                 !.notes = IF req[p].notes = NoNotes
                                              THEN a.notes
                                              ELSE req[p].notes]}
                /\ UNCHANGED <<users, shifts, schedules, directory>>]_vars

\* a check-out without notes has closed a record that keeps the notes of its
\* check-in, and a check-out with notes has replaced those of another
C26_Witness ==
    /\ response.op = "checkout" /\ response.status = StatusOK
    /\ \E a, b \in attendances :
          /\ a.check_out_at # NULL /\ a.notes = "n"
          /\ b.check_out_at # NULL /\ b.notes = "m" /\ b.id # a.id
          /\ a.id = response.id

\* C27: when the schedule lookup inside a check-in fails with a datastore
\* error, the check-in is answered with an error and creates no record.
C27_ScheduleLookupErrorFailsCheckIn ==
    (response.op = "checkin" /\ response.schedErr) =>
       /\ response.status >= StatusBadRequest
       /\ response.id = 0

\* no two rows of users share a username, and no two share an email
UniqueUsers ==
    \A u, v \in users :
       u # v => /\ profiles[u].username # profiles[v].username
                /\ profiles[u].email # profiles[v].email

\* a well-formed body whose username or email is the one of a row of users
\* other than the row self
WouldDuplicate(input, self) ==
    /\ ValidateProfile(input)
    /\ \E v \in users \ {self} :
          \/ profiles[v].username = input.username
          \/ profiles[v].email = input.email

\* C28: usernames are unique and emails are unique in every reachable
\* state; a Register, an admin UpdateUser or an UpdateMyProfile that would
\* duplicate a username or an email of another user is answered 409 and
\* leaves the rows of users as they were.
C28_UniqueUsernamesAndEmails ==
    /\ []UniqueUsers
    /\ [][/\ \A input \in RegisterInputs :
               (/\ WouldDuplicate(input, 0)
                /\ Len(input.password) >= MinPassword
                /\ \E r \in roles : r.id = input.role_id
                /\ Register(ApiProc, input)) =>
                  /\ response'.status = StatusConflict
                  /\ UNCHANGED <<users, profiles, userRole>>
          /\ \A u \in users, input \in AdminUpdateInputs :
               (/\ WouldDuplicate(input, u)
                /\ \E r \in roles : r.id = input.role_id
                /\ UpdateUser(ApiProc, u, input)) =>
                  /\ response'.status = StatusConflict
                  /\ UNCHANGED <<users, profiles, userRole>>
          /\ \A u \in users, input \in ProfileInputs :
               (WouldDuplicate(input, u)
                   /\ UpdateMyProfile(ApiProc, u, input)) =>
                  /\ response'.status = StatusConflict
                  /\ UNCHANGED <<users, profiles, userRole>>]_vars

\* a registered third user has asked for the email of another user and has
\* been refused
C28_Witness ==
    /\ 3 \in users
    /\ response.op = "updateProfile" /\ response.userID = 3
    /\ response.status = StatusConflict

\* C29: a record is written once after its creation: a request changes
\* neither check_out_at nor notes of a record that has been checked out,
\* and no request changes check_in_at or user_id of any record.
C29_RecordWrittenOnce ==
    /\ [](\A id \in DOMAIN checkOutWrites : checkOutWrites[id] <= 1)
    /\ [][\A a \in attendances : \A b \in attendances' :
             b.id = a.id =>
                /\ b.user_id = a.user_id
                /\ b.check_in_at = a.check_in_at
                /\ a.check_out_at # NULL =>
                      /\ b.check_out_at = a.check_out_at
                      /\ b.notes = a.notes]_vars

\* a second check-out has been refused for a record that is checked out,
\* and the record still has the notes of the first one
C29_Witness ==
    /\ response.op = "checkout"
    /\ response.status \in {StatusConflict, ZeroRowsStatus}
    /\ \E a \in attendances :
          /\ a.id = response.id
          /\ a.check_out_at # NULL
          /\ a.notes = "n"
          /\ checkOutWrites[a.id] = 1

C31_KeyIsConfiguredSecret ==
    boot = "serving" =>
       /\ jwtSecret = environ
       /\ jwtSecret = JwtSecret
       /\ \A u \in UserIds :
             issued[u] # NoIssued => issued[u].token.sig.key = JwtSecret

\* C32: Protected, through ValidateJWT, accepts no token whose header names
\* an algorithm other than HS256, also when its signature verifies under
\* the secret.
C32_OnlyHS256 ==
    ctx.locals # NoClaims => ExtractToken(ctx.header).alg = "HS256"

\* ------------------------------------------------------ reading all pages
\* Concurrent check-ins and check-outs of one user and schedules made by the
\* admin; then, with no request under way, a client reads one list from
\* page 1 to its last page.
ScanFrom == StartOfDay(1)
ScanTo == EndOfDay(Day(MaxClock))
ScanLimits == {1, 2}

ScanNext ==
    \/ /\ scan = NoScan
       /\ \E p \in Procs :
             AttendanceStep(p, {1}, {NoNotes}, MaxConcurrentClock)
       /\ UNCHANGED <<directory, pipeline, reports>>
    \/ /\ scan = NoScan
       /\ \E input \in ValidScheduleInputs :
             input.shift_id = 1 /\ AdminCreateSchedule(ApiProc, input)
       /\ UNCHANGED <<directory, pipeline, reports>>
    \/ /\ \A p \in Procs : pc[p] = "idle"
       /\ \E op \in ListQueries, limit \in ScanLimits :
             LET page == IF scan = NoScan THEN 1 ELSE scan.page + 1
             IN /\ IF scan = NoScan
                      THEN TRUE
                      ELSE /\ NextPageOf(op, 1, ScanFrom, ScanTo, page, limit)
                           /\ scan.phase = "returned"
                           /\ scan.page <
                                 BuildPaginationMeta(scan.total, limit,
                                                     scan.page).TotalPages
                /\ QueryCount(op, 1, ScanFrom, ScanTo, page, limit)
    \/ QueryData

ScanSpec == Init /\ [][ScanNext]_vars

\* the rows a list has to show, on the tables as they are
ListMatching(op, userID, startDate, endDate) ==
    CASE op = "GetAttendancesByUser" ->
            {a \in attendances : /\ a.user_id = userID
                                 /\ a.check_in_at >= startDate
                                 /\ a.check_in_at <= endDate}
      [] op = "GetAllAttendances" ->
            {a \in attendances : /\ a.check_in_at >= startDate
                                 /\ a.check_in_at <= endDate}
      [] op = "GetSchedulesByUser" ->
            {s \in schedules : /\ s.user_id = userID
                               /\ s.date >= Day(startDate)
                               /\ s.date <= Day(endDate)}
      [] OTHER ->
            {s \in schedules : /\ s.date >= Day(startDate)
                               /\ s.date <= Day(endDate)}

\* a comes before b in the order the list is specified to have
ListedBefore(op, a, b) ==
    CASE op = "GetAttendancesByUser" -> a.check_in_at > b.check_in_at
      [] op = "GetAllAttendances" ->
            \/ a.check_in_at > b.check_in_at
            \/ a.check_in_at = b.check_in_at /\ a.user_id < b.user_id
      [] op = "GetSchedulesByUser" -> a.date < b.date
      [] OTHER ->
            \/ a.date < b.date
            \/ a.date = b.date /\ a.user_id < b.user_id

\* the client has read the list from page 1 to page ceil(N/L)
ReadToLastPage ==
    /\ scan.phase = "returned"
    /\ scan.first = 1
    /\ scan.total > 0
    /\ scan.page = (scan.total + scan.limit - 1) \div scan.limit

\* C33: with no write between the requests, the pages 1..ceil(N/L) of a
\* list, put one after another, hold every matching row exactly once and
\* in the order the list is specified to have.
C33_PagesPartitionTheList ==
    ReadToLastPage =>
       LET matching == ListMatching(scan.op, scan.userID, scan.startDate,
                                    scan.endDate)
           n == Len(scan.rows)
       IN /\ n = Cardinality(matching)
          /\ {scan.rows[i] : i \in 1..n} = matching
          /\ \A i, j \in 1..n :
                i < j => ~ListedBefore(scan.op, scan.rows[j], scan.rows[i])

\* ------------------------------------------------- BuildPaginationMeta
\* The function on its own: the arguments are drawn from the ints around
\* zero, around the largest float64 that holds every int below it, and
\* around the largest int; one step calls it.
MetaTotals ==
    {-1, 0, 1, 2, 3, 7, 2^MantissaBits - 1, 2^MantissaBits,
     2^MantissaBits + 1, 2^MantissaBits + 3, MaxInt - 1, MaxInt}
MetaLimits == {-1, 0, 1, 2, 3, MaxLimit, MaxInt}
MetaPages == {0, 1, 2}

MetaInit ==
    /\ Migrated
    /\ environ = JwtSecret
    /\ jwtSecret = JwtSecret
    /\ boot = "serving"
    /\ meta \in {[NoMeta EXCEPT !.totalItems = t, !.limit = l, !.page = p] :
                    t \in MetaTotals, l \in MetaLimits, p \in MetaPages}

MetaNext == CallBuildPaginationMeta

MetaSpec == MetaInit /\ [][MetaNext]_vars

\* ceil(n / l) of integers n >= 0 and l > 0
CeilDiv(n, l) == (n + l - 1) \div l

C35_OpenRecordIsLast ==
    \A a \in attendances :
       a.check_out_at = NULL => GetLastAttendance(a.user_id) = {a}

\* ------------------------------------------------ attendance of two users
\* Both users log in, then send check-ins and check-outs with their tokens,
\* handled concurrently.
FrameNotes == {NoNotes, "n"}

FrameNext ==
    \/ \E u \in UserIds :
          /\ clock = 0 /\ issued[u] = NoIssued
          /\ Login(ApiProc, u, TRUE, UnixTicks(clock))
    \/ \E p \in Procs, u \in UserIds, notes \in FrameNotes :
          /\ clock < MaxConcurrentClock /\ issued[u] # NoIssued
          /\ Routed(p, UserChain, Bearer(issued[u].token), "CheckIn",
                    CheckInStart(p, RoutedUserID(UserChain,
                                                 Bearer(issued[u].token)),
                                 notes)
                       /\ UNCHANGED directory)
    \/ \E p \in Procs, u \in UserIds, notes \in FrameNotes :
          /\ clock < MaxConcurrentClock /\ issued[u] # NoIssued
          /\ Routed(p, UserChain, Bearer(issued[u].token), "CheckOut",
                    CheckOutStart(p, RoutedUserID(UserChain,
                                                  Bearer(issued[u].token)),
                                  notes)
                       /\ UNCHANGED directory)
    \/ \E p \in Procs :
          /\ \/ CheckInGetLast(p)
             \/ CheckInGetSchedule(p)
             \/ CheckInInsert(p)
             \/ CheckOutGetLast(p)
             \/ CheckOutUpdate(p)
          /\ UNCHANGED <<directory, pipeline, reports>>

FrameSpec == Init /\ [][FrameNext]_vars

\* rows of attendances that a step added, removed or changed
Touched == (attendances' \ attendances) \cup (attendances \ attendances')

\* C36: a check-in or check-out request acts for the user id of its
\* validated token: each of its steps adds or changes only attendance
\* records of that user, and leaves schedules, shifts, users and roles as
\* they are.
C36_OnlyOwnRecords ==
    [][\A p \in Procs :
          (pc'[p] # pc[p]) =>
             LET A == IF pc[p] = "idle" THEN req'[p].userID
                                        ELSE req[p].userID
             IN /\ pc[p] = "idle" =>
                      /\ ctx'.locals # NoClaims
                      /\ A = ExtractToken(ctx'.header).claims.user_id
                /\ \A a \in Touched : a.user_id = A
                /\ UNCHANGED <<users, shifts, schedules, nextScheduleId,
                               directory>>]_vars

\* user 2 has checked out with a note while user 1 has an open record
C36_Witness ==
    /\ response.op = "checkout" /\ response.status = StatusOK
    /\ response.userID = 2
    /\ \E a \in attendances : a.user_id = 1 /\ a.check_out_at = NULL
    /\ \E b \in attendances :
          b.user_id = 2 /\ b.check_out_at # NULL /\ b.notes = "n"

\* ------------------------------------------- a list request among writes
\* Check-ins, check-outs and new schedules, one request after another, and
\* one list request whose two statements run at any point among their
\* steps.
RacePages == {1, 2}

RaceNext ==
    \/ /\ AttendanceStep(ApiProc, {1}, {NoNotes}, MaxClock)
       /\ UNCHANGED <<directory, pipeline, reports>>
    \/ /\ \E input \in ValidScheduleInputs :
             input.shift_id = 1 /\ AdminCreateSchedule(ApiProc, input)
       /\ UNCHANGED <<directory, pipeline, reports>>
    \/ \E op \in ListQueries, page \in RacePages, limit \in ScanLimits :
          scan = NoScan /\ QueryCount(op, 1, ScanFrom, ScanTo, page, limit)
    \/ QueryData

RaceSpec == Init /\ [][RaceNext]_vars

\* C37: a list response carries at most per_page rows and at most
\* max(0, total_items - offset) rows, whatever is written between its
\* count and its rows: with total_items = 0 it carries none, and with rows
\* it reports total_items >= offset + the number of its rows.
C37_RowsWithinTotal ==
    scan.phase = "returned" =>
       LET offset == (scan.page - 1) * scan.limit
           n == Len(scan.data)
       IN /\ n <= Max(0, scan.total - offset)
          /\ n <= scan.limit
          /\ scan.total = 0 => n = 0
          /\ n > 0 => scan.total >= offset + n

\* ------------------------------------------------- requests that fail
\* One request after another on an API whose clients send bodies and ids of
\* every refused kind, against a datastore whose statements may fail.
ErrorShiftIds == {1, 3}

ErrorNext ==
    /\ UNCHANGED <<directory, pipeline, reports>>
    /\ \/ AttendanceStep(ApiProc, {1}, {NoNotes}, MaxConcurrentClock)
       \/ CheckInGetScheduleFails(ApiProc)
       \/ StatementFails(ApiProc)
       \/ ScheduleStep(ApiProc, ScheduleInputs)
       \/ \E id \in ErrorShiftIds : AdminDeleteShift(ApiProc, id)

ErrorSpec == Init /\ [][ErrorNext]_vars

Tables == <<users, shifts, schedules, attendances, roles, userRole, profiles>>

C39_DeleteOnceThenCreate ==
    [][/\ (response' # response /\ response'.op = "deleteSchedule") =>
             LET rows == {s \in schedules : s.id = response'.id}
             IN IF rows # {}
                   THEN /\ response'.status = StatusOK
                        /\ Cardinality(rows) = 1
                        /\ schedules' = schedules \ rows
                        /\ \A r \in rows, input \in ValidScheduleInputs :
                              (/\ input.user_id = r.user_id
                               /\ ParseDate(input.date) = r.date) =>
                                 (CreateScheduleErr(input) = "nil")'
                   ELSE /\ response'.status = StatusNotFound
                        /\ schedules' = schedules
       /\ \A id \in ScheduleIdInputs :
             (id < nextScheduleId /\ \A s \in schedules : s.id # id) =>
                \A s \in schedules' : s.id # id]_vars

\* schedule 1 was deleted, a further DeleteSchedule of id 1 was answered
\* 404, and the schedule made next for the same user and date is there
C39_Witness ==
    /\ response.op = "deleteSchedule" /\ response.status = StatusNotFound
    /\ response.id = 1
    /\ \E s \in schedules : s.id = 2 /\ s.user_id = 1 /\ s.date = 1
    /\ \A s \in schedules : s.id # 1

====
